---- MODULE Spec2Model ----
(***************************************************************************)
(* A model of the gila text editor: the key decoder, the Line and Cursor   *)
(* primitives, and the editor loop with its dirty/quit/save state machine. *)
(* Runes and bytes are integers; a line is a sequence of runes; a file is   *)
(* a sequence of bytes.                                                    *)
(***************************************************************************)
EXTENDS Integers, Sequences, FiniteSets, TLC

\* ------------------------------------------------------------------------
\* Bounds of the model.
\* ------------------------------------------------------------------------
\* Most lines the buffer may hold before Enter / append stop being offered.
MaxLines == 2
\* Most runes the buffer may hold before typed runes stop being offered.
MaxRunes == 2
\* Longest filename that may be typed into the prompt.
MaxPrompt == 1

\* ------------------------------------------------------------------------
\* Program constants.
\* ------------------------------------------------------------------------
tabStop == 4
forceQuitThreshold == 2

defaultCursorMargin == 3

keyBackspace == 1000000
keyLineFeed == 1000001
keyDel == 1000002
keyDown == 1000003
keyEnd == 1000004
keyEsc == 1000005
keyHome == 1000006
keyLeft == 1000007
keyPageUp == 1000008
keyPageDown == 1000009
keyRight == 1000010
keyUp == 1000011

chordBackspace == 8
chordRefresh == 12
chordSave == 19
chordQuit == 17

\* Bytes with a name in the source.
ESC == 27
TAB == 9
LF == 10
CR == 13
SPACE == 32
RuneError == 65533

\* ------------------------------------------------------------------------
\* intutil
\* ------------------------------------------------------------------------
Min(a, b) == IF a < b THEN a ELSE b

Max(a, b) == IF a > b THEN a ELSE b

\* ------------------------------------------------------------------------
\* Go slice expressions s[lo:hi] on a sequence (0-based, half open).  The
\* caller checks SlicePanics first.
\* ------------------------------------------------------------------------
SlicePanics(s, lo, hi) == lo < 0 \/ hi < lo \/ hi > Len(s)

Slice(s, lo, hi) == SubSeq(s, lo + 1, hi)

\* ------------------------------------------------------------------------
\* Line
\* ------------------------------------------------------------------------
RuneLen(l) == Len(l)

\* Index actually used by insertRuneAt after clamping.
insertIndex(l, i) == IF i < 0 \/ i > RuneLen(l) THEN RuneLen(l) ELSE i

insertRuneAt(l, r, i) ==
    LET j == insertIndex(l, i)
    IN  Slice(l, 0, j) \o <<r>> \o Slice(l, j, Len(l))

appendRune(l, r) == Append(l, r)

\* Index actually used by deleteRuneAt after clamping.
deleteIndex(l, i) == IF i < 0 \/ i >= RuneLen(l) THEN RuneLen(l) - 1 ELSE i

\* l.runes[:i] with i = -1 is a run-time slice-bounds failure.
deleteRuneAtPanics(l, i) ==
    LET j == deleteIndex(l, i)
    IN  SlicePanics(l, 0, j) \/ SlicePanics(l, j + 1, Len(l))

deleteRuneAt(l, i) ==
    LET j == deleteIndex(l, i)
    IN  Slice(l, 0, j) \o Slice(l, j + 1, Len(l))

\* deleteLastRune is called by the prompt; documented by Test_Line_deleteLastRune.
deleteLastRune(l) == IF Len(l) = 0 THEN l ELSE Slice(l, 0, Len(l) - 1)

append(l, other) == l \o other

RECURSIVE expandTabs_FixedWidth(_, _)
\* Every tab replaced by tabStop spaces, wherever it stands.
expandTabs_FixedWidth(s, render) ==
    IF s = <<>> THEN render
    ELSE IF Head(s) = TAB
         THEN expandTabs_FixedWidth(Tail(s), render \o [k \in 1..tabStop |-> SPACE])
         ELSE expandTabs_FixedWidth(Tail(s), Append(render, Head(s)))

RECURSIVE expandTabs(_, _)
\* The loop of newLineFromString: render is the output built so far.
expandTabs(s, render) ==
    IF s = <<>> THEN render
    ELSE IF Head(s) = TAB
         THEN LET n == tabStop - (Len(render) % tabStop)
              IN  expandTabs(Tail(s), render \o [k \in 1..n |-> SPACE])
         ELSE expandTabs(Tail(s), Append(render, Head(s)))

\* s is the raw string as runes (see Runes).
newLineFromString(s) == expandTabs(s, <<>>)

\* ------------------------------------------------------------------------
\* Cursor: a record [col, line, colOffset, lineOffset].
\* ------------------------------------------------------------------------
newCursor == [col |-> 1, line |-> 1, colOffset |-> 0, lineOffset |-> 0]

X(c) == c.col - c.colOffset

Y(c) == c.line - c.lineOffset

home(c) == [c EXCEPT !.col = 1]

end(c, lineLen) == [c EXCEPT !.col = lineLen + 1]

\* snap as it would be if it never moved the cursor.
snap_Never(c, lineLen) == c

snap(c, lineLen) == IF c.col > lineLen + 1 THEN end(c, lineLen) ELSE c

up(c) == IF c.line <= 1 THEN c ELSE [c EXCEPT !.line = c.line - 1]

down(c, nLines) == IF c.line > nLines THEN c ELSE [c EXCEPT !.line = c.line + 1]

left(c, prevLineLen) ==
    IF c.col > 1 THEN [c EXCEPT !.col = c.col - 1]
    ELSE end(up(c), prevLineLen)

right(c, lineLen, nLines) ==
    IF c.col <= lineLen THEN [c EXCEPT !.col = c.col + 1]
    ELSE home(down(c, nLines))

pageUp(c, height) ==
    LET targetLine == c.lineOffset - height + 2
    IN  [c EXCEPT !.line = Max(1, targetLine)]

\* pageDown moving a whole page, without the line of overlap.
pageDown_FullPage(c, height, nLines) ==
    LET targetLine == (c.lineOffset + height) + height
    IN  [c EXCEPT !.line = Min(nLines + 1, targetLine)]

pageDown(c, height, nLines) ==
    LET targetLine == (c.lineOffset + height - 1) + height
    IN  [c EXCEPT !.line = Min(nLines + 1, targetLine)]

\* scroll moving the view up by one line at a time instead of to the cursor.
scroll_ByOneLine(c, width, height) ==
    LET zeroIdxLine == c.line - 1
        zeroIdxCol == c.col - 1
        lo1 == IF zeroIdxLine < c.lineOffset THEN c.lineOffset - 1 ELSE c.lineOffset
        lo2 == IF zeroIdxLine >= lo1 + height THEN zeroIdxLine - height + 1 ELSE lo1
        co1 == IF zeroIdxCol < c.colOffset + defaultCursorMargin
               THEN Max(0, zeroIdxCol - defaultCursorMargin)
               ELSE c.colOffset
        co2 == IF zeroIdxCol >= co1 + width THEN zeroIdxCol - width + 1 ELSE co1
    IN  [c EXCEPT !.lineOffset = lo2, !.colOffset = co2]

\* scroll keeping one character less than the margin to the left of the cursor.
scroll_NarrowMargin(c, width, height) ==
    LET zeroIdxLine == c.line - 1
        zeroIdxCol == c.col - 1
        lo1 == IF zeroIdxLine < c.lineOffset THEN zeroIdxLine ELSE c.lineOffset
        lo2 == IF zeroIdxLine >= lo1 + height THEN zeroIdxLine - height + 1 ELSE lo1
        co1 == IF zeroIdxCol < c.colOffset + defaultCursorMargin - 1
               THEN Max(0, zeroIdxCol - (defaultCursorMargin - 1))
               ELSE c.colOffset
        co2 == IF zeroIdxCol >= co1 + width THEN zeroIdxCol - width + 1 ELSE co1
    IN  [c EXCEPT !.lineOffset = lo2, !.colOffset = co2]

scroll(c, width, height) ==
    LET zeroIdxLine == c.line - 1
        zeroIdxCol == c.col - 1
        lo1 == IF zeroIdxLine < c.lineOffset THEN zeroIdxLine ELSE c.lineOffset
        lo2 == IF zeroIdxLine >= lo1 + height THEN zeroIdxLine - height + 1 ELSE lo1
        co1 == IF zeroIdxCol < c.colOffset + defaultCursorMargin
               THEN Max(0, zeroIdxCol - defaultCursorMargin)
               ELSE c.colOffset
        co2 == IF zeroIdxCol >= co1 + width THEN zeroIdxCol - width + 1 ELSE co1
    IN  [c EXCEPT !.lineOffset = lo2, !.colOffset = co2]

\* ------------------------------------------------------------------------
\* UTF-8 (unicode/utf8 as used by the editor).
\* ------------------------------------------------------------------------
\* utf8.DecodeRune: the first code point of p, RuneError for invalid input.
DecodeRune(p) ==
    IF Len(p) < 1 THEN RuneError
    ELSE LET p0 == p[1] IN
    IF p0 < 128 THEN p0
    ELSE IF p0 < 194 \/ p0 > 244 THEN RuneError
    ELSE LET sz == IF p0 < 224 THEN 2 ELSE IF p0 < 240 THEN 3 ELSE 4
             lo == IF p0 = 224 THEN 160 ELSE IF p0 = 240 THEN 144 ELSE 128
             hi == IF p0 = 237 THEN 159 ELSE IF p0 = 244 THEN 143 ELSE 191
         IN  IF Len(p) < sz THEN RuneError
             ELSE IF p[2] < lo \/ p[2] > hi THEN RuneError
             ELSE IF sz = 2 THEN (p0 % 32) * 64 + (p[2] % 64)
             ELSE IF p[3] < 128 \/ p[3] > 191 THEN RuneError
             ELSE IF sz = 3
                  THEN (p0 % 16) * 4096 + (p[2] % 64) * 64 + (p[3] % 64)
             ELSE IF p[4] < 128 \/ p[4] > 191 THEN RuneError
             ELSE (p0 % 8) * 262144 + (p[2] % 64) * 4096
                  + (p[3] % 64) * 64 + (p[4] % 64)

\* string(rune): the UTF-8 encoding of one rune.
EncodeRune(r) ==
    LET v == IF r < 0 \/ r > 1114111 \/ (r >= 55296 /\ r <= 57343)
             THEN RuneError ELSE r
    IN  IF v < 128 THEN <<v>>
        ELSE IF v < 2048 THEN <<192 + (v \div 64), 128 + (v % 64)>>
        ELSE IF v < 65536
             THEN <<224 + (v \div 4096), 128 + ((v \div 64) % 64), 128 + (v % 64)>>
        ELSE <<240 + (v \div 262144), 128 + ((v \div 4096) % 64),
               128 + ((v \div 64) % 64), 128 + (v % 64)>>

RECURSIVE LineString(_)
\* Line.String: string(l.runes).
LineString(l) ==
    IF l = <<>> THEN <<>> ELSE EncodeRune(Head(l)) \o LineString(Tail(l))

\* Number of bytes utf8.DecodeRune consumes: 1 for an invalid byte.
DecodeSize(p) ==
    LET p0 == p[1]
        sz == IF p0 < 128 THEN 1 ELSE IF p0 < 224 THEN 2 ELSE IF p0 < 240 THEN 3 ELSE 4
    IN  IF sz > 1 /\ DecodeRune(p) = RuneError
           /\ (Len(p) < 3 \/ SubSeq(p, 1, 3) # <<239, 191, 189>>)
        THEN 1 ELSE sz

RECURSIVE Runes(_)
\* "for _, r := range s": the runes of a string, one RuneError per bad byte.
Runes(s) ==
    IF s = <<>> THEN <<>>
    ELSE <<DecodeRune(s)>> \o Runes(SubSeq(s, DecodeSize(s) + 1, Len(s)))

\* ------------------------------------------------------------------------
\* KeyDecoder.  kp is the raw chunk; B(kp, i) is the Go expression kp[i].
\* ------------------------------------------------------------------------
B(kp, i) == kp[i + 1]

isEscapeSequence(keypress) ==
    IF Len(keypress) <= 1 THEN FALSE
    ELSE B(keypress, 1) = 91 \/ B(keypress, 1) = 79

\* The one index the decoder takes without a length check: kp[2] in the
\* 'O' branch.
transliteratePanics(kp) ==
    /\ Len(kp) > 0
    /\ isEscapeSequence(kp)
    /\ B(kp, 1) # 91
    /\ B(kp, 1) = 79
    /\ Len(kp) <= 2

\* The escape-sequence table; 0 stands for "fell through".
escapeKey(kp) ==
    IF B(kp, 1) = 91
    THEN IF Len(kp) = 4
         THEN IF B(kp, 3) = 126
              THEN CASE B(kp, 2) = 49 -> keyHome
                     [] B(kp, 2) = 51 -> keyDel
                     [] B(kp, 2) = 52 -> keyEnd
                     [] B(kp, 2) = 53 -> keyPageUp
                     [] B(kp, 2) = 54 -> keyPageDown
                     [] B(kp, 2) = 55 -> keyHome
                     [] B(kp, 2) = 56 -> keyEnd
                     [] OTHER -> 0
              ELSE 0
         ELSE IF Len(kp) = 3
         THEN CASE B(kp, 2) = 65 -> keyUp
                [] B(kp, 2) = 66 -> keyDown
                [] B(kp, 2) = 67 -> keyRight
                [] B(kp, 2) = 68 -> keyLeft
                [] B(kp, 2) = 72 -> keyHome
                [] B(kp, 2) = 70 -> keyEnd
                [] OTHER -> 0
         ELSE 0
    ELSE IF B(kp, 1) = 79
    THEN CASE B(kp, 2) = 72 -> keyHome
           [] B(kp, 2) = 70 -> keyEnd
           [] OTHER -> 0
    ELSE 0

\* The single-byte controls and the UTF-8 fallback.
singleKey(kp) ==
    CASE B(kp, 0) = chordBackspace \/ B(kp, 0) = 127 -> keyBackspace
      [] B(kp, 0) = 4 -> keyDel
      [] B(kp, 0) = ESC -> keyEsc
      [] B(kp, 0) = CR -> keyLineFeed
      [] OTHER -> DecodeRune(kp)

\* transliterateKeypress without its check for the empty chunk, which then
\* reaches utf8.DecodeRune.
transliterateKeypress_NoSentinel(kp) ==
    IF Len(kp) = 0 THEN RuneError
    ELSE IF isEscapeSequence(kp) /\ escapeKey(kp) # 0 THEN escapeKey(kp)
    ELSE singleKey(kp)

\* Defined where transliteratePanics(kp) is false.
transliterateKeypress(kp) ==
    IF Len(kp) = 0 THEN 0
    ELSE IF isEscapeSequence(kp) /\ escapeKey(kp) # 0 THEN escapeKey(kp)
    ELSE singleKey(kp)

\* unicode.IsControl for the runes a key can carry: C0, DEL and C1.
IsControl(r) == (r >= 0 /\ r <= 31) \/ (r >= 127 /\ r <= 159)

\* ------------------------------------------------------------------------
\* Editor edit operations.  e is the record [lines, cursor, dirty, panicked]:
\* the fields of Editor the operations touch, and whether an index or slice
\* expression failed at run time.
\* ------------------------------------------------------------------------
Panic(e) == [e EXCEPT !.panicked = TRUE]

len(e) == Len(e.lines)

\* currentLine returns nil past the last line.
currentLineNil(e) == e.cursor.line > len(e)

\* e.lines[e.cursor.line-1] out of range.
currentLinePanics(e) == ~currentLineNil(e) /\ e.cursor.line - 1 < 0

\* currentLine().RuneLen(), 0 for the nil line.
currentLineLen(e) == IF currentLineNil(e) THEN 0 ELSE RuneLen(e.lines[e.cursor.line])

\* prevLine returns nil on the first line.
prevLineNil(e) == e.cursor.line <= 1

\* e.lines[e.cursor.line-2] out of range.
prevLinePanics(e) == ~prevLineNil(e) /\ e.cursor.line - 2 >= len(e)

\* prevLine().RuneLen(), 0 for the nil line.
prevLineLen(e) == IF prevLineNil(e) THEN 0 ELSE RuneLen(e.lines[e.cursor.line - 1])

insertRune(e, r) ==
    IF currentLinePanics(e) THEN Panic(e)
    ELSE LET ls == IF currentLineNil(e) THEN Append(e.lines, <<>>) ELSE e.lines
             n == IF currentLineNil(e) THEN Len(ls) ELSE e.cursor.line
         IN  [e EXCEPT !.lines = [ls EXCEPT ![n] = insertRuneAt(ls[n], r, e.cursor.col - 1)],
                       !.cursor.col = e.cursor.col + 1,
                       !.dirty = TRUE]

\* deleteCurrentLine as it would be if it removed the line before the cursor's.
deleteCurrentLine_Previous(e) ==
    [e EXCEPT !.lines = Slice(e.lines, 0, e.cursor.line - 2)
                        \o Slice(e.lines, e.cursor.line - 1, Len(e.lines))]

deleteCurrentLine(e) ==
    [e EXCEPT !.lines = Slice(e.lines, 0, e.cursor.line - 1)
                        \o Slice(e.lines, e.cursor.line, Len(e.lines))]

mergeCurrentLineWithPrevious(e) ==
    IF currentLinePanics(e) \/ prevLinePanics(e) THEN Panic(e)
    ELSE IF currentLineNil(e) \/ prevLineNil(e) THEN e
    ELSE LET n == e.cursor.line
             oldPrevLineLen == prevLineLen(e)
             merged == [e EXCEPT !.lines[n - 1] = append(e.lines[n - 1], e.lines[n])]
             removed == deleteCurrentLine(merged)
         IN  [removed EXCEPT !.cursor.line = n - 1,
                             !.cursor.col = oldPrevLineLen]

backspace(e) ==
    IF currentLinePanics(e) THEN Panic(e)
    ELSE IF currentLineNil(e) THEN e
    ELSE IF e.cursor.col = 1 THEN mergeCurrentLineWithPrevious(e)
    ELSE IF deleteRuneAtPanics(e.lines[e.cursor.line], e.cursor.col - 2) THEN Panic(e)
    ELSE [e EXCEPT !.lines[e.cursor.line] =
                       deleteRuneAt(e.lines[e.cursor.line], e.cursor.col - 2),
                   !.cursor.col = e.cursor.col - 1,
                   !.dirty = TRUE]

mergeNextLineWithCurrent(e) ==
    IF e.cursor.line = Len(e.lines) THEN e
    ELSE mergeCurrentLineWithPrevious([e EXCEPT !.cursor.line = e.cursor.line + 1])

delete(e) ==
    IF currentLinePanics(e) THEN Panic(e)
    ELSE IF e.cursor.col = currentLineLen(e) + 1 THEN mergeNextLineWithCurrent(e)
    ELSE LET moved == [e EXCEPT !.cursor.col = e.cursor.col + 1]
             erased == backspace(moved)
         IN  IF erased.panicked THEN erased
             ELSE [erased EXCEPT !.cursor.col = erased.cursor.col - 1]

newLine(e) ==
    IF e.cursor.line > Len(e.lines) THEN e
    ELSE IF currentLinePanics(e) THEN Panic(e)
    ELSE LET n == e.cursor.line
             cur == e.lines[n]
             at == e.cursor.col - 1
         IN  IF SlicePanics(cur, at, Len(cur)) THEN Panic(e)
             ELSE [e EXCEPT !.lines = Slice(e.lines, 0, n - 1)
                                      \o <<Slice(cur, 0, at), Slice(cur, at, Len(cur))>>
                                      \o Slice(e.lines, n, Len(e.lines)),
                            !.cursor.line = n + 1,
                            !.cursor.col = 1]

NavKeys == {keyHome, keyEnd, keyLeft, keyDown, keyUp, keyRight, keyPageUp, keyPageDown}

\* The switch of moveCursor, before the trailing snap.
moveCursorSwitch(e, k, height) ==
    CASE k = keyPageUp -> [e EXCEPT !.cursor = pageUp(e.cursor, height)]
      [] k = keyPageDown -> [e EXCEPT !.cursor = pageDown(e.cursor, height, len(e))]
      [] k = keyHome -> [e EXCEPT !.cursor = home(e.cursor)]
      [] k = keyEnd -> [e EXCEPT !.cursor = end(e.cursor, currentLineLen(e))]
      [] k = keyLeft -> IF prevLinePanics(e) THEN Panic(e)
                        ELSE [e EXCEPT !.cursor = left(e.cursor, prevLineLen(e))]
      [] k = keyDown -> [e EXCEPT !.cursor = down(e.cursor, len(e))]
      [] k = keyUp -> [e EXCEPT !.cursor = up(e.cursor)]
      [] k = keyRight -> [e EXCEPT !.cursor = right(e.cursor, currentLineLen(e), len(e))]
      [] OTHER -> Panic(e)

moveCursor(e, k, height) ==
    IF currentLinePanics(e) THEN Panic(e)
    ELSE LET moved == moveCursorSwitch(e, k, height)
         IN  IF moved.panicked THEN moved
             ELSE IF currentLinePanics(moved) THEN Panic(moved)
             ELSE [moved EXCEPT !.cursor = snap(moved.cursor, currentLineLen(moved))]

RECURSIVE String(_)
\* Editor.String over the lines: every line followed by one newline.
String(ls) ==
    IF ls = <<>> THEN <<>>
    ELSE LineString(Head(ls)) \o <<LF>> \o String(Tail(ls))

\* ------------------------------------------------------------------------
\* Files.  fs maps the paths that exist to their bytes.
\* ------------------------------------------------------------------------
dropCR(data) ==
    IF Len(data) > 0 /\ data[Len(data)] = CR THEN SubSeq(data, 1, Len(data) - 1) ELSE data

RECURSIVE ScanLines(_, _)
\* bufio.Scanner with the default split function, as open uses it: acc is the
\* line being collected.  A final line without a newline is still a line.
ScanLines(data, acc) ==
    IF data = <<>> THEN (IF acc = <<>> THEN <<>> ELSE <<dropCR(acc)>>)
    ELSE IF Head(data) = LF THEN <<dropCR(acc)>> \o ScanLines(Tail(data), <<>>)
    ELSE ScanLines(Tail(data), Append(acc, Head(data)))

\* The buffer open builds from the bytes of a file.
loadLines(data) ==
    LET raw == ScanLines(data, <<>>)
    IN  [i \in 1..Len(raw) |-> newLineFromString(Runes(raw[i]))]

RECURSIVE lastSlash(_)
\* Index of the last '/' of a path, 0 when there is none.
lastSlash(path) ==
    IF path = <<>> THEN 0
    ELSE IF path[Len(path)] = 47 THEN Len(path)
    ELSE lastSlash(SubSeq(path, 1, Len(path) - 1))

RECURSIVE Base(_)
\* filepath.Base: the last element of the path.
Base(path) ==
    IF path = <<>> THEN <<46>>
    ELSE IF path[Len(path)] = 47
         THEN (IF Len(path) = 1 THEN <<47>> ELSE Base(SubSeq(path, 1, Len(path) - 1)))
    ELSE SubSeq(path, lastSlash(path) + 1, Len(path))

\* f.WriteString on a file opened O_CREATE|O_WRONLY: the first n bytes of
\* document replace the first n bytes of the file, the rest of the file stays.
writeAt0(old, document, n) ==
    SubSeq(document, 1, n) \o SubSeq(old, n + 1, Len(old))

fileAt(files, path) == IF path \in DOMAIN files THEN files[path] ELSE <<>>

putFile(files, path, data) ==
    [q \in DOMAIN files \cup {path} |-> IF q = path THEN data ELSE files[q]]

\* "[Untitled]"
defaultFilename == <<91, 85, 110, 116, 105, 116, 108, 101, 100, 93>>

\* canForceQuit as it would be if one quit chord were enough.
canForceQuit_Once(isDirty, count) == ~isDirty \/ count >= 1

canForceQuit(isDirty, count) == ~isDirty \/ count >= forceQuitThreshold

\* ------------------------------------------------------------------------
\* The editor loop.
\* ------------------------------------------------------------------------
VARIABLES
    config,     \* Config after New: Width, and Height less the two bar rows
    arg,        \* the filepath argument of Run, <<>> for none
    fs,         \* the file system
    scanLimit,  \* lines the scanner reads before it fails, -1 if it never does
    r,          \* the key reader: the chunks ReadKey may deliver in this run
    cursor, lines, dirty, quitCount,
    filepath, filename, promptBuf, statusMsg,
    readErr, writeErr, openErr,
    prevQuit,   \* the key the main loop processed last was the quit chord
    prevSave,   \* the key the main loop processed last was the save chord
    clearCalls, \* calls of renderer.Clear made so far
    call,       \* a function called on its own: its arguments and its result
    pc          \* where Run is: start, render, read, promptRender, promptRead,
                \* done (Run returned), panic (an index or slice out of
                \* range in an edit or a move), decodePanic (the same in
                \* transliterateKeypress)

\* The state of the editor and its surroundings.
editorVars == <<config, arg, fs, scanLimit, r, cursor, lines, dirty, quitCount, filepath,
                filename, promptBuf, statusMsg, readErr, writeErr, openErr, prevQuit, prevSave,
                clearCalls, pc>>

vars == <<config, arg, fs, scanLimit, r, cursor, lines, dirty, quitCount, filepath, filename,
          promptBuf, statusMsg, readErr, writeErr, openErr, prevQuit, prevSave, clearCalls, pc,
          call>>

\* No function is being called on its own: the editor is running.
NoCall == [fn |-> "none"]

\* The path given on the command line in the runs explored.
PathF == <<102>>

\* Chunks of the keys, as a terminal sends them.
NavChunks ==
    { <<ESC, 91, 65>>, <<ESC, 91, 66>>, <<ESC, 91, 67>>, <<ESC, 91, 68>>,
      <<ESC, 91, 72>>, <<ESC, 91, 70>>, <<ESC, 91, 53, 126>>, <<ESC, 91, 54, 126>> }

EditChunks == { <<120>>, <<CR>>, <<127>>, <<4>> }

ControlChunks == { <<>>, <<chordQuit>>, <<chordRefresh>>, <<ESC>>, <<ESC, 79>> }

\* The runs explored: what is on disk, the argument, the terminal size and
\* the keys the user has at hand.

\* A new document, edited and navigated with every key but Save.
RunNew ==
    [arg |-> <<>>, scanLimit |-> -1, fs |-> <<>>, config |-> [Width |-> 2, Height |-> 2],
     r |-> NavChunks \cup EditChunks \cup ControlChunks]

\* "ab\nc\n" loaded, edited and navigated with every key but Save.
RunLoaded ==
    [arg |-> PathF, scanLimit |-> -1, fs |-> [q \in {PathF} |-> <<97, 98, LF, 99, LF>>],
     config |-> [Width |-> 2, Height |-> 1],
     r |-> NavChunks \cup EditChunks \cup ControlChunks]

\* A new document saved under the name "x", where a longer file exists.
RunSaveAs ==
    [arg |-> <<>>, scanLimit |-> -1, fs |-> [q \in {<<120>>} |-> <<99, 99, 99>>],
     config |-> [Width |-> 2, Height |-> 1],
     r |-> {<<120>>, <<CR>>, <<127>>, <<ESC>>, <<chordSave>>, <<chordQuit>>, <<>>}]

\* "ab\n" loaded, edited and saved.
RunSave ==
    [arg |-> PathF, scanLimit |-> -1, fs |-> [q \in {PathF} |-> <<97, 98, LF>>],
     config |-> [Width |-> 2, Height |-> 1],
     r |-> {<<120>>, <<127>>, <<chordSave>>, <<chordQuit>>, <<>>}]

\* The file named does not exist.
RunMissing ==
    [arg |-> PathF, scanLimit |-> -1, fs |-> <<>>, config |-> [Width |-> 2, Height |-> 1],
     r |-> {<<>>}]

\* "ab\nc\n" exists but reading it fails after the first line.
RunScanError ==
    [arg |-> PathF, scanLimit |-> 1, fs |-> [q \in {PathF} |-> <<97, 98, LF, 99, LF>>],
     config |-> [Width |-> 2, Height |-> 1],
     r |-> {<<chordQuit>>, <<>>}]

\* "\tb\n" loaded, navigated and saved without an edit.
RunTab ==
    [arg |-> PathF, scanLimit |-> -1, fs |-> [q \in {PathF} |-> <<TAB, 98, LF>>],
     config |-> [Width |-> 2, Height |-> 1],
     r |-> {<<ESC, 91, 67>>, <<chordSave>>, <<chordQuit>>, <<>>}]

\* A new document in which the Tab key is typed.
RunTabKey ==
    [arg |-> <<>>, scanLimit |-> -1, fs |-> <<>>, config |-> [Width |-> 2, Height |-> 1],
     r |-> {<<TAB>>, <<chordQuit>>, <<>>}]

\* A new document saved under a name typed at the prompt, with an arrow key
\* at hand.
RunPromptKeys ==
    [arg |-> <<>>, scanLimit |-> -1, fs |-> <<>>, config |-> [Width |-> 2, Height |-> 1],
     r |-> {<<120>>, <<ESC, 91, 65>>, <<CR>>, <<chordSave>>, <<>>}]

Runs == {RunNew, RunLoaded, RunSaveAs, RunSave, RunMissing, RunScanError, RunTab, RunTabKey,
         RunPromptKeys}

\* The chunks that decode without a run-time failure.
GoodChunks == {kp \in r : ~transliteratePanics(kp)}

Init ==
    /\ \E run \in Runs :
          /\ config = run.config
          /\ fs = run.fs
          /\ arg = run.arg
          /\ scanLimit = run.scanLimit
          /\ r = run.r
    /\ cursor = newCursor
    /\ lines = <<>>
    /\ dirty = FALSE
    /\ quitCount = 0
    /\ filepath = <<>>
    /\ filename = defaultFilename
    /\ promptBuf = <<>>
    /\ statusMsg = "Help: Ctrl-S = save | Ctrl-Q = quit"
    /\ readErr = FALSE
    /\ writeErr = FALSE
    /\ openErr = FALSE
    /\ prevQuit = FALSE
    /\ prevSave = FALSE
    /\ clearCalls = 0
    /\ call = NoCall
    /\ pc = "start"

\* The fields the edit operations work on.
Ed == [lines |-> lines, cursor |-> cursor, dirty |-> dirty, panicked |-> FALSE]

\* The end of processKeypress after an edit or a move: the quit count is reset.
Finish(e) ==
    /\ lines' = e.lines
    /\ cursor' = e.cursor
    /\ dirty' = e.dirty
    /\ IF e.panicked
       THEN pc' = "panic" /\ UNCHANGED quitCount
       ELSE pc' = "render" /\ quitCount' = 0

\* Clear called after the loop instead of being deferred: it is skipped when
\* open fails.
runDefer_AfterLoop ==
    clearCalls' = IF pc' \in {"done", "panic", "decodePanic"} /\ pc # "start"
                  THEN clearCalls + 1
                  ELSE clearCalls

\* The deferred call of Run: renderer.Clear runs when Run returns, and also
\* when it is left by a run-time failure.
runDefer ==
    clearCalls' = IF pc' \in {"done", "panic", "decodePanic"} THEN clearCalls + 1
                  ELSE clearCalls

\* Run, up to the loop: open the file when a path is given.
Open ==
    /\ pc = "start"
    /\ IF arg = <<>>
       THEN pc' = "render" /\ UNCHANGED <<lines, filepath, filename, openErr>>
       ELSE IF arg \notin DOMAIN fs
       THEN pc' = "done" /\ openErr' = TRUE /\ UNCHANGED <<lines, filepath, filename>>
       ELSE \* A scanner error is overwritten by the deferred Close: open
            \* returns nil with the lines read so far.
            /\ lines' = IF scanLimit < 0 THEN loadLines(fs[arg])
                        ELSE SubSeq(loadLines(fs[arg]), 1, scanLimit)
            /\ filepath' = arg
            /\ filename' = Base(arg)
            /\ pc' = "render"
            /\ UNCHANGED openErr
    /\ UNCHANGED <<config, arg, r, scanLimit, fs, cursor, dirty, quitCount, promptBuf, statusMsg,
                   readErr, writeErr, prevQuit, prevSave>>
    /\ runDefer
    /\ UNCHANGED call

\* render recording the error of the renderer but reporting success, so that
\* the loop goes on to read a key.
Render_IgnoresError ==
    /\ pc = "render"
    /\ cursor' = scroll(cursor, config.Width, config.Height)
    /\ \E ok \in BOOLEAN :
          /\ pc' = "read"
          /\ IF ok THEN UNCHANGED writeErr ELSE writeErr' = TRUE
    /\ UNCHANGED <<config, arg, r, scanLimit, fs, lines, dirty, quitCount, filepath, filename,
                   promptBuf, statusMsg, readErr, openErr, prevQuit, prevSave>>
    /\ runDefer
    /\ UNCHANGED call

\* render: scroll, then hand the frame to the renderer, which may fail.
Render ==
    /\ pc = "render"
    /\ cursor' = scroll(cursor, config.Width, config.Height)
    /\ \E ok \in BOOLEAN :
          IF ok THEN pc' = "read" /\ UNCHANGED writeErr
          ELSE pc' = "done" /\ writeErr' = TRUE
    /\ UNCHANGED <<config, arg, r, scanLimit, fs, lines, dirty, quitCount, filepath, filename,
                   promptBuf, statusMsg, readErr, openErr, prevQuit, prevSave>>
    /\ runDefer
    /\ UNCHANGED call

\* ReadKey returns an error.
ReadError ==
    /\ pc \in {"read", "promptRead"}
    /\ readErr' = TRUE
    /\ pc' = "done"
    /\ UNCHANGED <<config, arg, r, scanLimit, fs, cursor, lines, dirty, quitCount, filepath,
                   filename, promptBuf, statusMsg, writeErr, openErr, prevQuit, prevSave>>
    /\ runDefer
    /\ UNCHANGED call

\* transliterateKeypress indexes past the end of the chunk.
DecodePanic ==
    /\ pc \in {"read", "promptRead"}
    /\ \E kp \in r : transliteratePanics(kp)
    /\ pc' = "decodePanic"
    /\ UNCHANGED <<config, arg, r, scanLimit, fs, cursor, lines, dirty, quitCount, filepath,
                   filename, promptBuf, statusMsg, readErr, writeErr, openErr, prevQuit, prevSave>>
    /\ runDefer
    /\ UNCHANGED call

\* The empty chunk: end of input.
KeyEOF ==
    /\ pc = "read"
    /\ prevQuit' = FALSE /\ prevSave' = FALSE
    /\ \E kp \in GoodChunks : transliterateKeypress(kp) = 0
    /\ pc' = "done"
    /\ UNCHANGED <<config, arg, r, scanLimit, fs, cursor, lines, dirty, quitCount, filepath,
                   filename, promptBuf, statusMsg, readErr, writeErr, openErr>>
    /\ runDefer
    /\ UNCHANGED call

KeyQuit ==
    /\ pc = "read"
    /\ prevQuit' = TRUE /\ prevSave' = FALSE
    /\ \E kp \in GoodChunks : transliterateKeypress(kp) = chordQuit
    /\ quitCount' = quitCount + 1
    /\ IF canForceQuit(dirty, quitCount + 1)
       THEN pc' = "done" /\ UNCHANGED statusMsg
       ELSE /\ statusMsg' = "WARNING: Unsaved changes. Ctrl-Q to force quit."
            /\ pc' = "render"
    /\ UNCHANGED <<config, arg, r, scanLimit, fs, cursor, lines, dirty, filepath, filename,
                   promptBuf, readErr, writeErr, openErr>>
    /\ runDefer
    /\ UNCHANGED call

KeyMove ==
    /\ pc = "read"
    /\ prevQuit' = FALSE /\ prevSave' = FALSE
    /\ \E kp \in GoodChunks :
          /\ transliterateKeypress(kp) \in NavKeys
          /\ Finish(moveCursor(Ed, transliterateKeypress(kp), config.Height))
    /\ UNCHANGED <<config, arg, r, scanLimit, fs, filepath, filename, promptBuf, statusMsg,
                   readErr, writeErr, openErr>>
    /\ runDefer
    /\ UNCHANGED call

KeyBackspace ==
    /\ pc = "read"
    /\ prevQuit' = FALSE /\ prevSave' = FALSE
    /\ \E kp \in GoodChunks : transliterateKeypress(kp) = keyBackspace
    /\ Finish(backspace(Ed))
    /\ UNCHANGED <<config, arg, r, scanLimit, fs, filepath, filename, promptBuf, statusMsg,
                   readErr, writeErr, openErr>>
    /\ runDefer
    /\ UNCHANGED call

KeyDelete ==
    /\ pc = "read"
    /\ prevQuit' = FALSE /\ prevSave' = FALSE
    /\ \E kp \in GoodChunks : transliterateKeypress(kp) = keyDel
    /\ Finish(delete(Ed))
    /\ UNCHANGED <<config, arg, r, scanLimit, fs, filepath, filename, promptBuf, statusMsg,
                   readErr, writeErr, openErr>>
    /\ runDefer
    /\ UNCHANGED call

KeyEnter ==
    /\ pc = "read"
    /\ prevQuit' = FALSE /\ prevSave' = FALSE
    /\ Len(lines) < MaxLines
    /\ \E kp \in GoodChunks : transliterateKeypress(kp) = keyLineFeed
    /\ Finish(newLine(Ed))
    /\ UNCHANGED <<config, arg, r, scanLimit, fs, filepath, filename, promptBuf, statusMsg,
                   readErr, writeErr, openErr>>
    /\ runDefer
    /\ UNCHANGED call

KeyNoop ==
    /\ pc = "read"
    /\ prevQuit' = FALSE /\ prevSave' = FALSE
    /\ \E kp \in GoodChunks :
          /\ transliterateKeypress(kp) \in {keyEsc, chordRefresh}
    /\ Finish(Ed)
    /\ UNCHANGED <<config, arg, r, scanLimit, fs, filepath, filename, promptBuf, statusMsg,
                   readErr, writeErr, openErr>>
    /\ runDefer
    /\ UNCHANGED call

\* The keys of the default case of the dispatcher.
IsInsertKey(k) ==
    /\ k # 0
    /\ k \notin {chordSave, chordQuit, keyBackspace, keyDel, keyLineFeed, keyEsc, chordRefresh}
    /\ k \notin NavKeys

RECURSIVE totalRunes(_)
\* Number of runes in the buffer.
totalRunes(ls) == IF ls = <<>> THEN 0 ELSE RuneLen(Head(ls)) + totalRunes(Tail(ls))

KeyInsert ==
    /\ pc = "read"
    /\ prevQuit' = FALSE /\ prevSave' = FALSE
    /\ totalRunes(lines) < MaxRunes
    /\ currentLineNil(Ed) => Len(lines) < MaxLines
    /\ \E kp \in GoodChunks :
          /\ IsInsertKey(transliterateKeypress(kp))
          /\ Finish(insertRune(Ed, transliterateKeypress(kp)))
    /\ UNCHANGED <<config, arg, r, scanLimit, fs, filepath, filename, promptBuf, statusMsg,
                   readErr, writeErr, openErr>>
    /\ runDefer
    /\ UNCHANGED call

\* save with the document marked clean before the outcome of the write is
\* known.
writeDocument_CleanFirst(path) ==
    LET document == String(lines)
        old == fileAt(fs, path)
    IN  /\ dirty' = FALSE
        /\ \/ /\ fs' = putFile(fs, path, writeAt0(old, document, Len(document)))
              /\ statusMsg' = "Saved"
           \/ /\ statusMsg' = "Changes not saved! IO error: %s"
              /\ UNCHANGED fs
           \/ /\ \E n \in 0..(Len(document) - 1) :
                    fs' = putFile(fs, path, writeAt0(old, document, n))
              /\ statusMsg' = "Changes not saved! IO error: %s"

\* The tail of save: open path, write the document, report.  The open or the
\* write may fail; a failed write has put n bytes of the document in the file.
writeDocument(path) ==
    LET document == String(lines)
        old == fileAt(fs, path)
    IN  \/ /\ fs' = putFile(fs, path, writeAt0(old, document, Len(document)))
           /\ statusMsg' = "Saved"
           /\ dirty' = FALSE
        \/ /\ statusMsg' = "Changes not saved! IO error: %s"
           /\ UNCHANGED <<fs, dirty>>
        \/ /\ \E n \in 0..(Len(document) - 1) :
                 fs' = putFile(fs, path, writeAt0(old, document, n))
           /\ statusMsg' = "Changes not saved! IO error: %s"
           /\ UNCHANGED dirty

\* save going on to write whether or not the document is dirty.
saveNeeded_Always(isDirty) == TRUE

\* save goes on past its first check exactly when the document is dirty.
saveNeeded(isDirty) == isDirty

\* The save chord in the main loop.
KeySave ==
    /\ pc = "read"
    /\ prevQuit' = FALSE /\ prevSave' = TRUE
    /\ \E kp \in GoodChunks : transliterateKeypress(kp) = chordSave
    /\ IF ~saveNeeded(dirty)
       THEN /\ pc' = "render" /\ quitCount' = 0
            /\ UNCHANGED <<fs, statusMsg, dirty>>
       ELSE IF filename = defaultFilename
       THEN /\ pc' = "promptRender"
            /\ UNCHANGED <<fs, statusMsg, dirty, quitCount>>
       ELSE /\ writeDocument(filepath)
            /\ pc' = "render" /\ quitCount' = 0
    /\ UNCHANGED <<config, arg, r, scanLimit, cursor, lines, filepath, filename, promptBuf,
                   readErr, writeErr, openErr>>
    /\ runDefer
    /\ UNCHANGED call

\* The head of the prompt loop: set the status, render.
PromptRender ==
    /\ pc = "promptRender"
    /\ statusMsg' = "Save as: %s"
    /\ cursor' = scroll(cursor, config.Width, config.Height)
    /\ \E ok \in BOOLEAN :
          IF ok THEN pc' = "promptRead" /\ UNCHANGED writeErr
          ELSE pc' = "done" /\ writeErr' = TRUE
    /\ UNCHANGED <<config, arg, r, scanLimit, fs, lines, dirty, quitCount, filepath, filename,
                   promptBuf, readErr, openErr, prevQuit, prevSave>>
    /\ runDefer
    /\ UNCHANGED call

\* Enter in the prompt: save under the name typed, or abort on an empty name.
PromptCommit ==
    /\ pc = "promptRead"
    /\ UNCHANGED <<prevQuit, prevSave>>
    /\ \E kp \in GoodChunks : transliterateKeypress(kp) = keyLineFeed
    /\ IF RuneLen(promptBuf) = 0
       THEN /\ statusMsg' = "Save aborted"
            /\ UNCHANGED <<fs, dirty, filepath, filename, promptBuf>>
       ELSE /\ filepath' = LineString(promptBuf)
            /\ filename' = Base(LineString(promptBuf))
            /\ promptBuf' = <<>>
            /\ writeDocument(LineString(promptBuf))
    /\ pc' = "render"
    /\ quitCount' = 0
    /\ UNCHANGED <<config, arg, r, scanLimit, cursor, lines, readErr, writeErr, openErr>>
    /\ runDefer
    /\ UNCHANGED call

\* Escape in the prompt leaving the name typed so far in the prompt buffer, so
\* that save goes on with it.
PromptAbort_KeepsName ==
    /\ pc = "promptRead"
    /\ UNCHANGED <<prevQuit, prevSave>>
    /\ \E kp \in GoodChunks : transliterateKeypress(kp) = keyEsc
    /\ IF RuneLen(promptBuf) = 0
       THEN /\ statusMsg' = "Save aborted"
            /\ UNCHANGED <<fs, dirty, filepath, filename, promptBuf>>
       ELSE /\ filepath' = LineString(promptBuf)
            /\ filename' = Base(LineString(promptBuf))
            /\ promptBuf' = <<>>
            /\ writeDocument(LineString(promptBuf))
    /\ pc' = "render"
    /\ quitCount' = 0
    /\ UNCHANGED <<config, arg, r, scanLimit, cursor, lines, readErr, writeErr, openErr>>
    /\ runDefer
    /\ UNCHANGED call

\* Escape in the prompt: clear the name, which aborts the save.
PromptAbort ==
    /\ pc = "promptRead"
    /\ UNCHANGED <<prevQuit, prevSave>>
    /\ \E kp \in GoodChunks : transliterateKeypress(kp) = keyEsc
    /\ promptBuf' = <<>>
    /\ statusMsg' = "Save aborted"
    /\ pc' = "render"
    /\ quitCount' = 0
    /\ UNCHANGED <<config, arg, r, scanLimit, fs, cursor, lines, dirty, filepath, filename,
                   readErr, writeErr, openErr>>
    /\ runDefer
    /\ UNCHANGED call

\* What any other key does to the prompt buffer.
promptEdit(buf, k) ==
    IF k = keyBackspace \/ k = keyDel THEN deleteLastRune(buf)
    ELSE IF ~IsControl(k) THEN appendRune(buf, k)
    ELSE buf

\* Any other key in the prompt: edit the name and go round the loop.
PromptKey ==
    /\ pc = "promptRead"
    /\ UNCHANGED <<prevQuit, prevSave>>
    /\ \E kp \in GoodChunks :
          /\ transliterateKeypress(kp) \notin {keyLineFeed, keyEsc}
          /\ Len(promptEdit(promptBuf, transliterateKeypress(kp))) <= MaxPrompt
          /\ promptBuf' = promptEdit(promptBuf, transliterateKeypress(kp))
    /\ pc' = "promptRender"
    /\ UNCHANGED <<config, arg, r, scanLimit, fs, cursor, lines, dirty, quitCount, filepath,
                   filename, statusMsg, readErr, writeErr, openErr>>
    /\ runDefer
    /\ UNCHANGED call

\* processKeypress once ReadKey has delivered the chunk kp: the case of the
\* dispatcher that the key decoded from kp selects.
processKeypress(kp) ==
    LET key == transliterateKeypress(kp)
    IN  /\ pc = "read"
        /\ kp \in GoodChunks
        /\ IF key = 0 THEN KeyEOF
           ELSE IF key = chordSave THEN KeySave
           ELSE IF key = chordQuit THEN KeyQuit
           ELSE IF key \in NavKeys THEN KeyMove
           ELSE IF key = keyBackspace THEN KeyBackspace
           ELSE IF key = keyDel THEN KeyDelete
           ELSE IF key = keyLineFeed THEN KeyEnter
           ELSE IF key \in {keyEsc, chordRefresh} THEN KeyNoop
           ELSE KeyInsert

\* What Run returns once it has returned.
RunReturn ==
    IF openErr THEN "openErr"
    ELSE IF readErr THEN "readErr"
    ELSE IF writeErr THEN "writeErr"
    ELSE "nil"

Next ==
    \/ Open
    \/ Render
    \/ ReadError
    \/ DecodePanic
    \/ KeyEOF
    \/ KeyQuit
    \/ KeySave
    \/ KeyMove
    \/ KeyBackspace
    \/ KeyDelete
    \/ KeyEnter
    \/ KeyNoop
    \/ KeyInsert
    \/ PromptRender
    \/ PromptCommit
    \/ PromptAbort
    \/ PromptKey

Spec == Init /\ [][Next]_vars

\* ------------------------------------------------------------------------
\* Functions called on their own.  The editor is not running: its variables
\* keep the values of Idle, and call holds the arguments and, once the
\* function has returned, its result.
\* ------------------------------------------------------------------------
Idle ==
    /\ config = [Width |-> 2, Height |-> 1]
    /\ arg = <<>>
    /\ fs = <<>>
    /\ scanLimit = -1
    /\ r = {}
    /\ cursor = newCursor
    /\ lines = <<>>
    /\ dirty = FALSE
    /\ quitCount = 0
    /\ filepath = <<>>
    /\ filename = defaultFilename
    /\ promptBuf = <<>>
    /\ statusMsg = ""
    /\ readErr = FALSE
    /\ writeErr = FALSE
    /\ openErr = FALSE
    /\ prevQuit = FALSE
    /\ prevSave = FALSE
    /\ clearCalls = 0
    /\ pc = "idle"

\* Longest chunk given to the decoder, in bytes.
MaxChunk == 4

\* The bytes the chunks are made of: ESC [ O A H 3 ~ x.
ChunkBytes == {ESC, 91, 79, 65, 72, 51, 126, 120}

\* The sequences over S of length n.
SeqsOfLen(S, n) == [1..n -> S]

\* Code points given to the decoder as their UTF-8 encoding: the single-byte
\* controls, letters, the ends of the ranges of each encoded length, and the
\* values around the function keys.
CodePoints ==
    {0, 4, 8, 9, 13, 27, 65, 127, 128, 2047, 2048, 65535, 65536, 999999, 1114111}
        \cup (keyBackspace..(keyUp + 1))

\* The chunks given to the decoder.
Chunks ==
    UNION {SeqsOfLen(ChunkBytes, n) : n \in 0..MaxChunk}
        \cup {EncodeRune(cp) : cp \in CodePoints}
        \cup {<<ESC, 91, b>> : b \in {66, 67, 68, 70}}
        \cup {<<ESC, 91, b, 126>> : b \in 48..57}
        \cup {<<ESC, 79, 70>>}

InitDecode ==
    /\ Idle
    /\ \E kp \in Chunks :
          call = [fn |-> "transliterateKeypress", kp |-> kp, done |-> FALSE,
                  panicked |-> FALSE, key |-> 0]

\* transliterateKeypress(kp) returns key, or fails at run time.
Decode ==
    /\ call.fn = "transliterateKeypress"
    /\ ~call.done
    /\ call' = IF transliteratePanics(call.kp)
               THEN [call EXCEPT !.done = TRUE, !.panicked = TRUE]
               ELSE [call EXCEPT !.done = TRUE, !.key = transliterateKeypress(call.kp)]
    /\ UNCHANGED editorVars

NextDecode == Decode

SpecDecode == InitDecode /\ [][NextDecode]_vars

\* Largest column and line of a cursor given to scroll, and largest offset.
MaxCoord == 7
MaxOffset == 5

\* Largest width and height of the screen given to scroll.
MaxWidth == 6
MaxHeight == 3

\* The cursors given to scroll; an edit can leave the column at 0 or -1.
ScrollCursors ==
    [col : (-1)..MaxCoord, line : 1..MaxCoord, colOffset : 0..MaxOffset, lineOffset : 0..MaxOffset]

InitScroll ==
    /\ Idle
    /\ \E c \in ScrollCursors, w \in 1..MaxWidth, h \in 1..MaxHeight :
          call = [fn |-> "scroll", c |-> c, width |-> w, height |-> h,
                  given |-> c, before |-> c, n |-> 0]

\* c.scroll(width, height), called twice in a row: given is the cursor before
\* the first call, before the cursor before the latest call.
Scroll ==
    /\ call.fn = "scroll"
    /\ call.n < 2
    /\ call' = [call EXCEPT !.c = scroll(call.c, call.width, call.height),
                            !.before = call.c,
                            !.n = call.n + 1]
    /\ UNCHANGED editorVars

NextScroll == Scroll

SpecScroll == InitScroll /\ [][NextScroll]_vars

\* ------------------------------------------------------------------------
\* The renderer (package renderer).  A frame is rendered as a sequence of
\* writes to the terminal writer; strings are sequences of bytes.
\* ------------------------------------------------------------------------
\* One call of the terminal writer.
WriteEscapeSequence(e, args) == [op |-> "WriteEscapeSequence", seq |-> e, data |-> args]
WriteString(s) == [op |-> "WriteString", seq |-> "", data |-> s]
WriteByte(b) == [op |-> "WriteByte", seq |-> "", data |-> <<b>>]
Flush == [op |-> "Flush", seq |-> "", data |-> <<>>]

\* statusMsgMaxDuration, 5 seconds, in tenths of a second.
statusMsgMaxDuration == 50

RECURSIVE Dec(_)
\* fmt's %d of a natural number.
Dec(n) == IF n < 10 THEN <<48 + n>> ELSE Dec(n \div 10) \o <<48 + (n % 10)>>

\* n spaces.
Spaces(n) == [i \in 1..n |-> SPACE]

\* fmt's %*s: s right-justified in n columns, left-justified in -n columns.
PadLeft(s, n) == Spaces(Max(0, n - Len(s))) \o s
PadRight(s, n) == s \o Spaces(Max(0, n - Len(s)))

RECURSIVE Flatten(_)
\* The writes of a sequence of steps, in order.
Flatten(ss) == IF ss = <<>> THEN <<>> ELSE Head(ss) \o Flatten(Tail(ss))

\* Rows of an endless page that are followed.
MaxRowsSeen == 2

\* The screen's Width and Height are uint (64 bits).  A uint is held as the
\* integer congruent to it modulo 2^64 that is nearest to 0: n >= 0 stands
\* for n itself and n < 0 for 2^64 + n, the value a subtraction below 0 wraps
\* to (-1 is 18446744073709551615).  a < b on two uints:
uless(a, b) == IF (a < 0) = (b < 0) THEN a < b ELSE b < 0

\* min, on two uints.
min(a, b) == IF uless(a, b) THEN a ELSE b

\* A Height that has wrapped: the loops over the rows of the page do not end
\* in any time a user would wait.
Endless(screen) == screen.Height < 0

\* The rows of the page that are followed: all of them, or the first
\* MaxRowsSeen of an endless page.
RowsSeen(screen) == IF Endless(screen) THEN MaxRowsSeen ELSE screen.Height

RECURSIVE truncate(_, _)
\* fmt's %.ns: the first n runes of the string s, an invalid byte counting
\* as one rune.
truncate(s, n) ==
    IF n = 0 \/ s = <<>> THEN <<>>
    ELSE SubSeq(s, 1, DecodeSize(s))
         \o truncate(SubSeq(s, DecodeSize(s) + 1, Len(s)), n - 1)

renderNewLine ==
    << WriteEscapeSequence("EscLineClearFromCursor", <<>>), WriteString(<<CR, LF>>) >>

renderEmptyLine == <<WriteByte(126)>> \o renderNewLine

renderLine(c, line, width) ==
    LET leftMargin == min(c.colOffset, Len(line))
        rest == SubSeq(line, leftMargin + 1, Len(line))
        rightMargin == min(Len(rest), width)
    IN  <<WriteString(SubSeq(rest, 1, rightMargin))>> \o renderNewLine

center(s, width) ==
    LET leftPadding == (width + Len(s)) \div 2
    IN  PadRight(PadLeft(s, leftPadding), width)

renderAbout(about, width) ==
    LET text == center(about, width)
        maxLen == min(Len(text), width)
    IN  <<WriteString(SubSeq(text, 1, maxLen))>>

\* A third of a wrapped Height is far beyond any row that is followed.
renderHomepage(about, screen) ==
    Flatten([y \in 1..RowsSeen(screen) |->
                IF ~Endless(screen) /\ y = screen.Height \div 3
                THEN renderAbout(about, screen.Width)
                ELSE renderEmptyLine])

renderContent(c, ls, screen) ==
    Flatten([y \in 1..RowsSeen(screen) |->
                LET lineIdx == y + c.lineOffset - 1
                IN  IF lineIdx < Len(ls)
                    THEN renderLine(c, LineString(ls[lineIdx + 1]), screen.Width)
                    ELSE renderEmptyLine])

renderPage(about, c, ls, screen) ==
    IF Len(ls) = 0 THEN renderHomepage(about, screen) ELSE renderContent(c, ls, screen)

RECURSIVE statusBarPadding(_, _, _)
\* The loop of renderStatusBar from column i: spaces up to the place where
\* rhs fits exactly, then rhs.
statusBarPadding(i, rhs, width) ==
    IF ~uless(i, width) THEN <<>>
    ELSE IF width - i = Len(rhs) THEN <<WriteString(rhs)>>
    ELSE <<WriteByte(SPACE)>> \o statusBarPadding(i + 1, rhs, width)

renderStatusBar(name, line, totalLines, screen) ==
    LET lhs == <<SPACE>> \o truncate(name, 20)
               \o <<SPACE, 45, SPACE>> \o Dec(totalLines) \o <<SPACE, 108, 105, 110, 101, 115>>
        maxLHSLen == min(Len(lhs), screen.Width - 1)
        rhs == Dec(line) \o <<47>> \o Dec(totalLines) \o <<SPACE>>
    IN  <<WriteEscapeSequence("EscGRendInvertColors", <<>>)>>
        \o <<WriteString(SubSeq(lhs, 1, maxLHSLen))>>
        \o statusBarPadding(maxLHSLen, rhs, screen.Width)
        \o <<WriteEscapeSequence("EscGRendRestore", <<>>)>>
        \o renderNewLine

\* renderMessageBar with a message still shown when exactly five seconds old.
renderMessageBar_Inclusive(msg, elapsed, screen) ==
    LET maxLen == min(Len(msg), screen.Width)
    IN  (IF maxLen > 0 /\ elapsed <= statusMsgMaxDuration
         THEN <<WriteString(SubSeq(msg, 1, maxLen))>> ELSE <<>>)
        \o <<WriteEscapeSequence("EscLineClearFromCursor", <<>>)>>

\* elapsed is time.Since(lastStatusTime).
renderMessageBar(msg, elapsed, screen) ==
    LET maxLen == min(Len(msg), screen.Width)
    IN  (IF maxLen > 0 /\ elapsed < statusMsgMaxDuration
         THEN <<WriteString(SubSeq(msg, 1, maxLen))>> ELSE <<>>)
        \o <<WriteEscapeSequence("EscLineClearFromCursor", <<>>)>>

\* The calls Render makes when none fails, Flush last; on an endless page,
\* the calls up to the last row that is followed.
RenderCalls(about, frame, elapsed, screen) ==
    << WriteEscapeSequence("EscCursorHide", <<>>),
       WriteEscapeSequence("EscCursorTopLeft", <<>>) >>
    \o renderPage(about, frame.Cursor, frame.Lines, screen)
    \o (IF Endless(screen) THEN <<>>
        ELSE renderStatusBar(frame.Filename, frame.Cursor.line, Len(frame.Lines), screen)
             \o renderMessageBar(frame.StatusMsg, elapsed, screen)
             \o << WriteEscapeSequence("EscCursorPosition",
                                       <<Y(frame.Cursor), X(frame.Cursor)>>),
                   WriteEscapeSequence("EscCursorShow", <<>>) >>
             \o <<Flush>>)

\* The calls at which Render can be seen to end: any call that fails, or 0
\* for none; on an endless page Render ends only by a call that fails.
FailPoints(about, frame, elapsed, screen) ==
    (IF Endless(screen) THEN {} ELSE {0})
    \cup 1..Len(RenderCalls(about, frame, elapsed, screen))

\* Render flushing what was written before it returns the error of a write.
RenderTrace_FlushOnError(about, frame, elapsed, screen, failAt) ==
    LET all == RenderCalls(about, frame, elapsed, screen)
    IN  IF failAt = 0 \/ failAt = Len(all) THEN all
        ELSE SubSeq(all, 1, failAt) \o <<Flush>>

\* Render: the calls made up to and including the first that fails, all of
\* them when none fails; failAt = 0 stands for no failure.
RenderTrace(about, frame, elapsed, screen, failAt) ==
    LET all == RenderCalls(about, frame, elapsed, screen)
    IN  IF failAt = 0 THEN all ELSE SubSeq(all, 1, failAt)

\* Largest screen given to the renderer: columns, and rows before New
\* reserves two of them for the bars; and the width of one wide screen.
MaxScreenWidth == 4
MaxScreenHeight == 6
WideScreenWidth == 30

\* New: two rows are reserved for the status and message bars.  Height is a
\* uint: on a terminal of fewer than two rows the subtraction wraps, and the
\* result, -2 or -1, stands for 2^64 - 2 or 2^64 - 1 (see uless).
rendererNew(screen) == [screen EXCEPT !.Height = screen.Height - 2]

\* The file names rendered: "[Untitled]", and a name of 21 runes in 42 bytes.
RenderFilenames == { defaultFilename, Flatten([i \in 1..21 |-> <<195, 169>>]) }

\* "g -- version 1".
About == <<103, 32, 45, 45, 32, 118, 101, 114, 115, 105, 111, 110, 32, 49>>

\* The buffers rendered: none, "ab", and "abc" over "d".
RenderLines == { <<>>, <<(<<97, 98>>)>>, <<(<<97, 98, 99>>), (<<100>>)>> }

\* The status messages rendered: none, "Hi" and "Hello".
RenderMessages == { <<>>, <<72, 105>>, <<72, 101, 108, 108, 111>> }

\* Ages of the status message at the time of the render, in tenths of a
\* second.
RenderAges == {0, 49, 50, 51}

\* The frames the editor hands over for the buffer ls on the screen given:
\* the cursor is on a line of the buffer or the one after, at its start or
\* after "ab", and has been scrolled.
Frames(ls, screen) ==
    { [Cursor |-> scroll([col |-> col, line |-> line, colOffset |-> 0, lineOffset |-> 0],
                         screen.Width, screen.Height),
       Lines |-> ls, Filename |-> name, StatusMsg |-> msg]
        : col \in {1, 3}, line \in 1..(Len(ls) + 1), msg \in RenderMessages,
          name \in RenderFilenames }

InitRender ==
    /\ Idle
    /\ \E w \in 0..MaxScreenWidth \cup {WideScreenWidth}, h \in 0..MaxScreenHeight,
          ls \in RenderLines,
          age \in RenderAges :
          LET screen == rendererNew([Width |-> w, Height |-> h])
          IN  \E frame \in Frames(ls, screen) :
                 call = [fn |-> "Render", frame |-> frame, elapsed |-> age, screen |-> screen,
                         done |-> FALSE, out |-> <<>>, err |-> FALSE, failAt |-> 0]

\* r.Render(frame), in which any one call of the terminal writer may fail.
RenderFrame ==
    /\ call.fn = "Render"
    /\ ~call.done
    /\ \E failAt \in FailPoints(About, call.frame, call.elapsed, call.screen) :
          call' = [call EXCEPT
                      !.done = TRUE,
                      !.out = RenderTrace(About, call.frame, call.elapsed, call.screen, failAt),
                      !.err = (failAt # 0),
                      !.failAt = failAt]
    /\ UNCHANGED editorVars

NextRender == RenderFrame

SpecRender == InitRender /\ [][NextRender]_vars

\* ------------------------------------------------------------------------
\* Line.insertRuneAt and Line.deleteRuneAt called on their own, on any line
\* of up to MaxLineRunes runes with any index around its bounds.
\* ------------------------------------------------------------------------
MaxLineRunes == 3

LineRunes == {97, 98}

LineValues == UNION {SeqsOfLen(LineRunes, n) : n \in 0..MaxLineRunes}

LineIndices == (-2)..(MaxLineRunes + 2)

InitLine ==
    /\ Idle
    /\ \E l \in LineValues, i \in LineIndices :
          call = [fn |-> "none", l |-> l, i |-> i, r |-> 120, given |-> l,
                  done |-> FALSE, panicked |-> FALSE]

\* l.insertRuneAt(r, i)
InsertRuneAt ==
    /\ call.fn = "none"
    /\ ~call.done
    /\ call' = [call EXCEPT !.fn = "insertRuneAt",
                            !.l = insertRuneAt(call.l, call.r, call.i),
                            !.done = TRUE]
    /\ UNCHANGED editorVars

\* l.deleteRuneAt(i); a slice expression out of bounds stops the call and
\* leaves the line as it was.
DeleteRuneAt ==
    /\ call.fn = "none"
    /\ ~call.done
    /\ call' = [call EXCEPT !.fn = "deleteRuneAt",
                            !.l = IF deleteRuneAtPanics(call.l, call.i)
                                  THEN call.l
                                  ELSE deleteRuneAt(call.l, call.i),
                            !.panicked = deleteRuneAtPanics(call.l, call.i),
                            !.done = TRUE]
    /\ UNCHANGED editorVars

NextLine == InsertRuneAt \/ DeleteRuneAt

SpecLine == InitLine /\ [][NextLine]_vars

\* ------------------------------------------------------------------------
\* Cursor.pageUp and Cursor.pageDown called on their own, on any cursor of
\* ScrollCursors, a screen of 1..MaxHeight rows and a document of up to
\* MaxPageLines lines.
\* ------------------------------------------------------------------------
MaxPageLines == 4

InitPage ==
    /\ Idle
    /\ \E c \in ScrollCursors, h \in 1..MaxHeight, n \in 0..MaxPageLines :
          call = [fn |-> "none", c |-> c, height |-> h, nLines |-> n, given |-> c]

\* c.pageUp(height)
PageUp ==
    /\ call.fn = "none"
    /\ call' = [call EXCEPT !.fn = "pageUp", !.c = pageUp(call.c, call.height)]
    /\ UNCHANGED editorVars

\* c.pageDown(height, nLines)
PageDown ==
    /\ call.fn = "none"
    /\ call' = [call EXCEPT !.fn = "pageDown",
                            !.c = pageDown(call.c, call.height, call.nLines)]
    /\ UNCHANGED editorVars

NextPage == PageUp \/ PageDown

SpecPage == InitPage /\ [][NextPage]_vars

\* ------------------------------------------------------------------------
\* newLineFromString called on its own, on any string of up to MaxRawRunes
\* runes made of tabs, spaces and a letter.
\* ------------------------------------------------------------------------
MaxRawRunes == 4

RawRunes == {TAB, SPACE, 97}

RawStrings == UNION {SeqsOfLen(RawRunes, n) : n \in 0..MaxRawRunes}

InitFromString ==
    /\ Idle
    /\ \E s \in RawStrings :
          call = [fn |-> "none", s |-> s, runes |-> <<>>]

\* newLineFromString(s)
NewLineFromString ==
    /\ call.fn = "none"
    /\ call' = [call EXCEPT !.fn = "newLineFromString",
                            !.runes = newLineFromString(call.s)]
    /\ UNCHANGED editorVars

NextFromString == NewLineFromString

SpecFromString == InitFromString /\ [][NextFromString]_vars

\* ------------------------------------------------------------------------
\* The editor on a key source that runs dry: from some read on, ReadKey
\* delivers only the empty chunk.  The loop of Run and the loop of prompt go
\* on by themselves, so every step of the editor is taken when it can be.
\* ------------------------------------------------------------------------
Exhausted == r = {<<>>}

\* The key source runs dry.
Exhaust ==
    /\ ~Exhausted
    /\ r' = {<<>>}
    /\ UNCHANGED <<config, arg, fs, scanLimit, cursor, lines, dirty, quitCount, filepath,
                   filename, promptBuf, statusMsg, readErr, writeErr, openErr, prevQuit,
                   prevSave, clearCalls, pc, call>>

NextExhausting == Next \/ Exhaust

SpecExhausting == Init /\ [][NextExhausting]_vars /\ WF_vars(Next)

\* ------------------------------------------------------------------------
\* The editor with one paging key held down: from some read on, ReadKey
\* delivers only PageDown, or only PageUp.
\* ------------------------------------------------------------------------
PageDownChunk == <<ESC, 91, 54, 126>>

PageUpChunk == <<ESC, 91, 53, 126>>

HoldingPageDown == r = {PageDownChunk}

HoldingPageUp == r = {PageUpChunk}

\* From now on the user presses PageDown and nothing else.
HoldPageDown ==
    /\ ~HoldingPageDown /\ ~HoldingPageUp
    /\ r' = {PageDownChunk}
    /\ UNCHANGED <<config, arg, fs, scanLimit, cursor, lines, dirty, quitCount, filepath,
                   filename, promptBuf, statusMsg, readErr, writeErr, openErr, prevQuit,
                   prevSave, clearCalls, pc, call>>

\* From now on the user presses PageUp and nothing else.
HoldPageUp ==
    /\ ~HoldingPageDown /\ ~HoldingPageUp
    /\ r' = {PageUpChunk}
    /\ UNCHANGED <<config, arg, fs, scanLimit, cursor, lines, dirty, quitCount, filepath,
                   filename, promptBuf, statusMsg, readErr, writeErr, openErr, prevQuit,
                   prevSave, clearCalls, pc, call>>

NextPaging == Next \/ HoldPageDown \/ HoldPageUp

SpecPaging == Init /\ [][NextPaging]_vars /\ WF_vars(Next)

\* ------------------------------------------------------------------------
\* Properties.
\* ------------------------------------------------------------------------
\* The loop is between two keypresses of the main loop.
InLoop == pc \in {"render", "read"}

\* Length of the line the cursor c is on in ls, 0 off the buffer.
LineLenAt(ls, c) ==
    IF c.line >= 1 /\ c.line <= Len(ls) THEN Len(ls[c.line]) ELSE 0

\* The two cursor bounds of the data model.
CursorValid(ls, c) ==
    /\ 1 <= c.line /\ c.line <= Len(ls) + 1
    /\ 1 <= c.col /\ c.col <= LineLenAt(ls, c) + 1

\* Backspace is about to act at column 1 of the real line n of the buffer.
AtLineStart == cursor.col = 1 /\ cursor.line >= 1 /\ cursor.line <= Len(lines)

\* C1: every key that changes the text of the buffer leaves the document
\* marked dirty.
C1_ChangeMarksDirty == [][(pc # "start" /\ lines' # lines) => dirty']_vars

\* C2: a quit chord ends the loop at once on a clean document; on a dirty one
\* it ends the loop exactly when the key before it was a quit chord too, and
\* otherwise sets the warning and keeps running; a key other than quit that
\* returns to the loop leaves the quit counter at zero.
C2_QuitProtocol ==
    [][/\ KeyQuit =>
            IF ~dirty \/ prevQuit
            THEN pc' = "done"
            ELSE /\ pc' = "render"
                 /\ statusMsg' = "WARNING: Unsaved changes. Ctrl-Q to force quit."
       /\ (pc \in {"read", "promptRead"} /\ pc' = "render" /\ ~KeyQuit) =>
            quitCount' = 0]_vars

\* C2 witness: the second of two quit chords in a row ended the loop on a
\* dirty document.
C2_Witness == pc = "done" /\ dirty /\ prevQuit /\ quitCount = 2 /\ ~readErr /\ ~writeErr

\* C3: after every processed key the cursor is on a line of 1..nLines+1 and
\* on a column of 1..length+1 of that line.
C3_CursorInBounds == InLoop => CursorValid(lines, cursor)

\* C4: no key makes an edit or a move fail at run time.
C4_NoRuntimeFailure == pc # "panic"

\* C5: transliterateKeypress returns a key for every chunk and never fails.
C5_DecoderNeverFails == pc # "decodePanic"

\* C6: a save that reports success leaves the file holding exactly the
\* document, every line followed by one newline, and the document clean.
C6_SavedFileIsDocument ==
    [][(dirty /\ ~dirty') =>
          (statusMsg' = "Saved" /\ fileAt(fs', filepath') = String(lines'))]_vars

\* C7: at every render the screen coordinates of the cursor lie on the screen.
C7_CursorOnScreen ==
    pc \in {"read", "promptRead"} =>
        /\ 1 <= X(cursor) /\ X(cursor) <= config.Width
        /\ 1 <= Y(cursor) /\ Y(cursor) <= config.Height

\* C8: a navigation key pressed with the cursor inside both bounds leaves it
\* inside both bounds, and does not fail.
C8_NavigationKeepsBounds ==
    [][(KeyMove /\ CursorValid(lines, cursor)) =>
          (pc' = "render" /\ CursorValid(lines', cursor'))]_vars

\* C8 witness: the cursor came down from the end of "ab" onto the shorter
\* line "c" and was snapped to its end.
C8_Witness ==
    /\ pc = "render" /\ ~dirty
    /\ lines = <<(<<97, 98>>), (<<99>>)>>
    /\ cursor.line = 2 /\ cursor.col = 2

\* C9: Backspace at column 1 of a line n > 1 leaves the cursor on line n-1
\* just after the last rune line n-1 had, where the two texts join.
C9_CursorAtJoin ==
    [][(KeyBackspace /\ AtLineStart /\ cursor.line > 1) =>
          /\ cursor'.line = cursor.line - 1
          /\ cursor'.col = Len(lines[cursor.line - 1]) + 1]_vars

\* C10: Backspace at column 1 of a line n > 1 replaces lines n-1 and n by
\* their concatenation, moves the cursor to line n-1 and sets its column to
\* the length line n-1 had; at line 1, column 1 it changes nothing.
C10_BackspaceMerges ==
    [][(KeyBackspace /\ AtLineStart) =>
          IF cursor.line > 1
          THEN /\ lines' = SubSeq(lines, 1, cursor.line - 2)
                           \o <<lines[cursor.line - 1] \o lines[cursor.line]>>
                           \o SubSeq(lines, cursor.line + 1, Len(lines))
               /\ cursor'.line = cursor.line - 1
               /\ cursor'.col = Len(lines[cursor.line - 1])
          ELSE /\ lines' = lines
               /\ cursor' = cursor
               /\ dirty' = dirty]_vars

\* C10 witness: "c" was merged into "ab" and the column is 2, the length of
\* "ab".
C10_Witness ==
    /\ pc = "render"
    /\ lines = <<(<<97, 98, 99>>)>>
    /\ cursor.line = 1 /\ cursor.col = 2

\* Delete is about to act at the end of the real line the cursor is on.
AtLineEnd ==
    /\ cursor.line >= 1 /\ cursor.line <= Len(lines)
    /\ cursor.col = Len(lines[cursor.line]) + 1

\* C11: Delete at the end of a line N below the last line appends line N+1 to
\* line N, removes line N+1 and leaves the column and the line of the cursor
\* as they were; at the end of the last line it changes nothing.
C11_DeleteMergesNext ==
    [][(KeyDelete /\ AtLineEnd) =>
          IF cursor.line < Len(lines)
          THEN /\ lines' = SubSeq(lines, 1, cursor.line - 1)
                           \o <<lines[cursor.line] \o lines[cursor.line + 1]>>
                           \o SubSeq(lines, cursor.line + 2, Len(lines))
               /\ cursor'.col = cursor.col
               /\ cursor'.line = cursor.line
          ELSE /\ lines' = lines
               /\ cursor' = cursor]_vars

\* Delete is about to act on a rune of the real line the cursor is on.
OnRune ==
    /\ cursor.line >= 1 /\ cursor.line <= Len(lines)
    /\ cursor.col >= 1 /\ cursor.col <= Len(lines[cursor.line])

\* C12: Delete with the cursor on a rune removes exactly that rune, leaves
\* every other rune and line as it was, and leaves the column and the line of
\* the cursor as they were.
C12_DeleteRemovesRuneInPlace ==
    [][(KeyDelete /\ OnRune) =>
          /\ lines' = [lines EXCEPT ![cursor.line] =
                          SubSeq(@, 1, cursor.col - 1) \o SubSeq(@, cursor.col + 1, Len(@))]
          /\ cursor'.col = cursor.col
          /\ cursor'.line = cursor.line]_vars

\* Enter is about to act on a real line of the buffer.
OnRealLine == cursor.line >= 1 /\ cursor.line <= Len(lines)

\* C13: Enter at column c of a real line L replaces line L by the runes before
\* column c and, directly after it, the runes from column c on; the other
\* lines keep their text and order, the line count grows by one and the cursor
\* ends at column 1 of line L+1.
C13_EnterSplitsLine ==
    [][(KeyEnter /\ OnRealLine) =>
          /\ pc' = "render"
          /\ lines' = SubSeq(lines, 1, cursor.line - 1)
                      \o << SubSeq(lines[cursor.line], 1, cursor.col - 1),
                            SubSeq(lines[cursor.line], cursor.col, Len(lines[cursor.line])) >>
                      \o SubSeq(lines, cursor.line + 1, Len(lines))
          /\ Len(lines') = Len(lines) + 1
          /\ cursor'.col = 1
          /\ cursor'.line = cursor.line + 1]_vars

\* The buffer after the rune k is put between the runes of line l of ls that
\* are before column c and those from column c on, an empty line being
\* appended first when l is the virtual trailing line.
withRuneAt(ls, l, c, k) ==
    LET full == IF l = Len(ls) + 1 THEN Append(ls, <<>>) ELSE ls
    IN  [full EXCEPT ![l] = SubSeq(@, 1, Min(Max(c - 1, 0), Len(@)))
                            \o <<k>>
                            \o SubSeq(@, Max(c, 1), Len(@))]

\* C14: a key of the default case inserts its rune at the cursor column of the
\* cursor's line, after appending an empty line when the cursor is on the
\* virtual trailing line; the other lines are unchanged, the column advances
\* by one, the line of the cursor is unchanged and the document is dirty.
C14_InsertAtCursor ==
    [][(KeyInsert /\ cursor.line >= 1 /\ cursor.line <= Len(lines) + 1) =>
          /\ pc' = "render"
          /\ cursor'.col = cursor.col + 1
          /\ cursor'.line = cursor.line
          /\ dirty'
          /\ \E kp \in GoodChunks :
                /\ IsInsertKey(transliterateKeypress(kp))
                /\ lines' = withRuneAt(lines, cursor.line, cursor.col,
                                       transliterateKeypress(kp))]_vars

\* A save that went as far as opening the file: the save chord on a dirty
\* named document, or Enter on a name typed at the prompt.
SaveAttempt ==
    \/ KeySave /\ dirty /\ filename # defaultFilename
    \/ PromptCommit /\ RuneLen(promptBuf) > 0

\* C15: a save whose open or write fails does not end the loop: the editor
\* goes on to the next frame with no error recorded for Run, the status
\* message reports the failure and the document stays dirty.
C15_FailedSaveIsNotFatal ==
    [][(SaveAttempt /\ statusMsg' # "Saved") =>
          /\ pc' = "render"
          /\ ~readErr' /\ ~writeErr' /\ ~openErr'
          /\ statusMsg' = "Changes not saved! IO error: %s"
          /\ dirty']_vars

\* C15 witness: a save chord on a dirty document has failed and the loop is
\* about to render the report.
C15_Witness ==
    /\ pc = "render" /\ prevSave
    /\ statusMsg = "Changes not saved! IO error: %s"
    /\ dirty

\* The prompt ends without a name: Escape, or Enter on an empty prompt buffer.
PromptEndsUnnamed == PromptAbort \/ (PromptCommit /\ RuneLen(promptBuf) = 0)

\* C16: while the document is untitled a file is written only by Enter on a
\* non-empty prompt buffer; Escape, or Enter on an empty prompt buffer, writes
\* nothing, leaves the prompt buffer empty and the document untitled and
\* dirty, and the editor goes on running.
C16_UntitledSaveNeedsName ==
    [][/\ (filename = defaultFilename /\ fs' # fs) =>
            (PromptCommit /\ RuneLen(promptBuf) > 0)
       /\ PromptEndsUnnamed =>
            /\ fs' = fs
            /\ promptBuf' = <<>>
            /\ filename' = defaultFilename /\ filepath' = <<>>
            /\ dirty'
            /\ pc' = "render" /\ ~readErr' /\ ~writeErr']_vars

\* C16 witness: the prompt of a dirty untitled document was left without a
\* name and the file on disk is as it was.
C16_Witness ==
    /\ pc = "render" /\ prevSave
    /\ statusMsg = "Save aborted"
    /\ dirty /\ filename = defaultFilename /\ promptBuf = <<>>
    /\ fs = RunSaveAs.fs

\* The buffer holds the file named on the command line as open loaded it, and
\* no edit is recorded.
Unedited ==
    /\ arg # <<>> /\ arg \in DOMAIN fs /\ scanLimit < 0
    /\ ~dirty
    /\ lines = loadLines(fs[arg])

\* C17 as stated: a save pressed on a loaded, unedited document leaves the
\* file holding the loaded content with every tab expanded to spaces.
C17_RoundTripExpandsTabs ==
    [][(KeySave /\ Unedited) => fileAt(fs', arg) = String(lines)]_vars

\* C17: a save pressed on a loaded, unedited document writes nothing: the file
\* keeps the bytes it was loaded from, tabs included, the buffer keeps the
\* expanded lines and the editor goes on running.
C17_UneditedSaveWritesNothing ==
    [][(KeySave /\ Unedited) =>
          /\ fs' = fs
          /\ lines' = lines
          /\ ~dirty'
          /\ pc' = "render"]_vars

\* C17 witness: "\tb\n" was loaded as "    b", the save chord was pressed and
\* the file still holds the tab.
C17_Witness ==
    /\ pc = "render" /\ prevSave /\ ~dirty
    /\ arg = PathF /\ fs = RunTab.fs
    /\ lines = << <<SPACE, SPACE, SPACE, SPACE, 98>> >>

\* C18: no line of the buffer ever holds a tab character, whatever file was
\* loaded and whatever keys were typed.
C18_NoTabInBuffer ==
    \A i \in 1..Len(lines) : \A j \in 1..Len(lines[i]) : lines[i][j] # TAB

\* C19: when ReadKey delivers the empty chunk in the main loop the loop ends,
\* Run returns no error, and the buffer, the cursor and the dirty flag are as
\* they were.
C19_EndOfInput ==
    [][processKeypress(<<>>) =>
          /\ pc' = "done"
          /\ RunReturn' = "nil"
          /\ lines' = lines
          /\ cursor' = cursor
          /\ dirty' = dirty]_vars

\* C19 witness: the input ended on a dirty document, which Run left without
\* an error and without a quit chord.
C19_Witness ==
    /\ pc = "done" /\ RunReturn = "nil"
    /\ ~prevQuit /\ ~prevSave
    /\ dirty /\ lines # <<>>

\* C20: once ReadKey or Render has returned an error, in the main loop or in
\* the filename prompt, Run has returned, with that error, and nothing is read
\* or rendered after Run has returned.
C20_TransportErrorEndsRun ==
    [][/\ pc # "done"
       /\ (readErr' \/ writeErr') =>
            /\ pc' = "done"
            /\ ~(readErr' /\ writeErr')
            /\ RunReturn' = IF readErr' THEN "readErr" ELSE "writeErr"]_vars

\* C20 witness: ReadKey failed inside the filename prompt and Run returned
\* the read error.
C20_Witness ==
    /\ pc = "done" /\ RunReturn = "readErr"
    /\ statusMsg = "Save as: %s" /\ prevSave
    /\ promptBuf # <<>>

\* The file named at startup cannot be opened, or the scanner fails before it
\* has read all of its lines.
LoadFails == arg # <<>> /\ (arg \notin DOMAIN fs \/ scanLimit >= 0)

\* C21: when the file named at startup cannot be opened or cannot be read to
\* its end, Run returns an error straight from open: the loop is never
\* entered, so nothing is rendered and no key is read.
C21_LoadFailureAbortsRun ==
    (LoadFails /\ pc # "start") => (pc = "done" /\ RunReturn = "openErr")

\* The key the escape-sequence table gives for the chunk kp, 0 when kp is not
\* a sequence of the table: ESC [ A/B/C/D/H/F, ESC [ 1/3/4/5/6/7/8 ~, and
\* ESC O H/F.
tableKey(kp) ==
    IF Len(kp) < 3 \/ kp[1] # ESC THEN 0
    ELSE IF kp[2] = 91 /\ Len(kp) = 3
    THEN CASE kp[3] = 65 -> keyUp
           [] kp[3] = 66 -> keyDown
           [] kp[3] = 67 -> keyRight
           [] kp[3] = 68 -> keyLeft
           [] kp[3] = 72 -> keyHome
           [] kp[3] = 70 -> keyEnd
           [] OTHER -> 0
    ELSE IF kp[2] = 91 /\ Len(kp) = 4 /\ kp[4] = 126
    THEN CASE kp[3] = 49 -> keyHome
           [] kp[3] = 51 -> keyDel
           [] kp[3] = 52 -> keyEnd
           [] kp[3] = 53 -> keyPageUp
           [] kp[3] = 54 -> keyPageDown
           [] kp[3] = 55 -> keyHome
           [] kp[3] = 56 -> keyEnd
           [] OTHER -> 0
    ELSE IF kp[2] = 79
    THEN CASE kp[3] = 72 -> keyHome
           [] kp[3] = 70 -> keyEnd
           [] OTHER -> 0
    ELSE 0

\* The decoder has returned a key for a chunk.
Decoded == call.fn = "transliterateKeypress" /\ call.done /\ ~call.panicked

\* C22: a chunk is decoded as an escape sequence exactly when byte 0 is ESC,
\* byte 1 is '[' or 'O' and the chunk is in the table; every other non-empty
\* chunk is decoded by its first byte or as one UTF-8 code point.
C22_EscapeSequencesNeedEsc ==
    (Decoded /\ Len(call.kp) > 0) =>
        call.key = IF tableKey(call.kp) # 0 THEN tableKey(call.kp) ELSE singleKey(call.kp)

\* The values of the function keys.
FunctionKeys == keyBackspace..keyUp

\* The code points a terminal sends as one of the single-byte controls.
ControlBytes == {8, 127, 4, 27, 13}

\* C23: the values of the function keys are not code points: the UTF-8
\* encoding of a code point other than the single-byte controls never decodes
\* to the value of a function key.
C23_SentinelsAreNotCodePoints ==
    (Decoded /\ \E cp \in CodePoints \ ControlBytes : call.kp = EncodeRune(cp)) =>
        call.key \notin FunctionKeys

\* C24: a second call of scroll with the same width and height leaves the
\* offsets as the first call set them.
C24_ScrollIdempotent ==
    (call.fn = "scroll" /\ call.n = 2) =>
        /\ call.c.colOffset = call.before.colOffset
        /\ call.c.lineOffset = call.before.lineOffset

\* C24 witness: on a screen narrower than the margin the first call moved
\* both offsets, and the second call has been made.
C24_Witness ==
    /\ call.fn = "scroll" /\ call.n = 2
    /\ call.width < defaultCursorMargin
    /\ call.c.colOffset # call.given.colOffset
    /\ call.c.lineOffset # call.given.lineOffset

\* C30: after scroll on a screen at least four columns wide the view is not
\* scrolled horizontally, or at least three columns to the left of the cursor
\* are in view.
C30_LeftContextVisible ==
    (call.fn = "scroll" /\ call.n >= 1 /\ call.width >= 4) =>
        (call.c.colOffset = 0 \/ call.c.col - 1 - call.c.colOffset >= 3)

\* C30 witness: scroll has moved the view left to a column other than the
\* first, and exactly three columns are in view to the left of the cursor.
C30_Witness ==
    /\ call.fn = "scroll" /\ call.n = 1 /\ call.width >= 4
    /\ call.c.colOffset > 0
    /\ call.c.colOffset < call.given.colOffset
    /\ call.c.col - 1 - call.c.colOffset = 3

\* Render has returned without an error.
Rendered == call.fn = "Render" /\ call.done /\ ~call.err

\* Where the escape sequence e is written in the trace out.
IndexOf(out, e) == CHOOSE i \in 1..Len(out) : out[i].seq = e

\* The writes of the message bar: those between the end of the status bar
\* row and the positioning of the cursor.
MessageBarOf(out) ==
    SubSeq(out, IndexOf(out, "EscGRendRestore") + 3, IndexOf(out, "EscCursorPosition") - 1)

\* The clear-rest-of-row sequence.
ClearRestOfRow == WriteEscapeSequence("EscLineClearFromCursor", <<>>)

\* The bytes that the string writes of a sequence of calls put on the row.
TextOf(calls) == Flatten([i \in 1..Len(calls) |-> calls[i].data])

\* C25: a non-empty status message is on the message bar exactly when it is
\* less than 5 seconds old at the render (50 tenths of a second), cut to the
\* width of the screen, and the rest of the row is cleared either way.
C25_MessageShownForFiveSeconds ==
    (Rendered /\ call.frame.StatusMsg # <<>>) =>
        LET msg == call.frame.StatusMsg
            bar == MessageBarOf(call.out)
            written == SubSeq(bar, 1, Len(bar) - 1)
        IN  /\ Len(bar) >= 1 /\ bar[Len(bar)] = ClearRestOfRow
            /\ \A i \in 1..Len(written) : written[i].op = "WriteString"
            /\ TextOf(written) = IF call.elapsed < 50
                                 THEN SubSeq(msg, 1, Min(Len(msg), call.screen.Width))
                                 ELSE <<>>

\* C25 witness: "Hello", set 5.1 seconds before the render, was left out and
\* the row was cleared.
C25_Witness ==
    /\ Rendered
    /\ call.frame.StatusMsg = <<72, 101, 108, 108, 111>>
    /\ call.elapsed = 51
    /\ MessageBarOf(call.out) = <<ClearRestOfRow>>

\* The writes of the content rows: those between cursor-home and the start
\* of the status bar.
PageOf(out) == SubSeq(out, 3, IndexOf(out, "EscGRendInvertColors") - 1)

\* The end of a row.
CRLF == WriteString(<<CR, LF>>)

\* C26: Render writes exactly as many content rows as the screen has rows
\* less the two bars, empty buffer or not, and every row, the banner row
\* included, ends with clear-rest-of-row followed by CRLF.
C26_ContentRowsEndCleared ==
    Rendered =>
        LET page == PageOf(call.out)
            ends == {i \in 1..Len(page) : page[i] = CRLF}
        IN  /\ Cardinality(ends) = call.screen.Height
            /\ \A i \in ends : i > 1 /\ page[i - 1] = ClearRestOfRow
            /\ Len(page) = 0 \/ Len(page) \in ends

\* C27: a Render that succeeds writes cursor-hide, cursor-home, the content
\* rows, the status bar, the message bar, the cursor position Y;X and
\* cursor-show in this order and then calls Flush once, last; a Render in
\* which a write fails returns the error and never calls Flush.
C27_RenderOrderAndFlush ==
    (call.fn = "Render" /\ call.done) =>
        LET out == call.out
            n == Len(out)
            flushes == {i \in 1..n : out[i] = Flush}
        IN  IF ~call.err
            THEN /\ out[1] = WriteEscapeSequence("EscCursorHide", <<>>)
                 /\ out[2] = WriteEscapeSequence("EscCursorTopLeft", <<>>)
                 /\ 2 < IndexOf(out, "EscGRendInvertColors")
                 /\ IndexOf(out, "EscGRendInvertColors") < IndexOf(out, "EscGRendRestore")
                 /\ IndexOf(out, "EscGRendRestore") + 2 < IndexOf(out, "EscCursorPosition")
                 /\ \A i \in 3..(IndexOf(out, "EscGRendInvertColors") - 1) :
                       out[i].seq \in {"", "EscLineClearFromCursor"}
                 /\ out[IndexOf(out, "EscCursorPosition") - 1] = ClearRestOfRow
                 /\ out[n - 2] = WriteEscapeSequence("EscCursorPosition",
                                     <<Y(call.frame.Cursor), X(call.frame.Cursor)>>)
                 /\ out[n - 1] = WriteEscapeSequence("EscCursorShow", <<>>)
                 /\ flushes = {n}
            ELSE /\ n = call.failAt
                 /\ out[n] # Flush => flushes = {}
                 /\ out[n] = Flush => flushes = {n}

\* C27 witness: a frame of two lines with its message was rendered and
\* flushed.
C27_Witness ==
    /\ Rendered
    /\ Len(call.frame.Lines) = 2 /\ call.frame.StatusMsg # <<>> /\ call.elapsed = 0
    /\ call.out[Len(call.out)] = Flush
    /\ call.frame.Cursor.line = 3

\* Run is about to read a key, in the main loop or in the prompt.
AtRead == pc \in {"read", "promptRead"}

\* Run is about to scroll and render.
AtRender == pc \in {"render", "promptRender"}

\* C28: every read of a key comes straight after one scroll-then-render and
\* every render straight after the start or a read, so that renders and reads
\* alternate, a render first; Clear has been called once when Run has
\* returned, whatever ended it, and not before.
C28_RenderReadAlternateClearOnce ==
    /\ [](pc = "done" => clearCalls = 1)
    /\ []((pc = "start" \/ AtRead \/ AtRender) => clearCalls = 0)
    /\ [][/\ AtRead' => /\ AtRender
                        /\ Render \/ PromptRender
                        /\ cursor' = scroll(cursor, config.Width, config.Height)
          /\ AtRender' => (pc = "start" \/ AtRead)]_vars

\* C28 witness: Run returned the error of open without entering the loop,
\* and Clear was called once.
C28_Witness == pc = "done" /\ openErr /\ clearCalls = 1 /\ lines = <<>>

\* ------------------------------------------------------------------------
\* C29: Line.insertRuneAt and Line.deleteRuneAt never fail for any integer
\* index: an insert index outside 0..length appends the rune, a delete index
\* outside 0..length-1 deletes the last rune, and deleteRuneAt on an empty
\* line leaves the line empty.
\* ------------------------------------------------------------------------
C29_LineOpsNeverFail ==
    (call.fn \in {"insertRuneAt", "deleteRuneAt"} /\ call.done) =>
        /\ ~call.panicked
        /\ (call.fn = "insertRuneAt" /\ (call.i < 0 \/ call.i > Len(call.given)))
              => call.l = Append(call.given, call.r)
        /\ (call.fn = "deleteRuneAt" /\ call.given # <<>>
                /\ (call.i < 0 \/ call.i >= Len(call.given)))
              => call.l = SubSeq(call.given, 1, Len(call.given) - 1)
        /\ (call.fn = "deleteRuneAt" /\ call.given = <<>>) => call.l = <<>>

\* The same, for every line that holds at least one rune.
C29_NonEmptyLineOpsNeverFail ==
    call.given # <<>> => C29_LineOpsNeverFail

\* ------------------------------------------------------------------------
\* C31: one call of scroll leaves lineOffset alone when the cursor line is in
\* the viewport; when the cursor was above it, lineOffset becomes line-1 and
\* the cursor is on the first visible row; when it was below, lineOffset
\* becomes line-height and the cursor is on the last visible row.  scroll
\* never changes col or line.
\* ------------------------------------------------------------------------
LineInView(c, height) ==
    c.lineOffset <= c.line - 1 /\ c.line - 1 < c.lineOffset + height

C31_ScrollVertical ==
    (call.fn = "scroll" /\ call.n = 1) =>
        /\ call.c.col = call.given.col
        /\ call.c.line = call.given.line
        /\ LineInView(call.given, call.height)
              => call.c.lineOffset = call.given.lineOffset
        /\ call.given.line - 1 < call.given.lineOffset
              => /\ call.c.lineOffset = call.given.line - 1
                 /\ Y(call.c) = 1
        /\ call.given.line - 1 >= call.given.lineOffset + call.height
              => /\ call.c.lineOffset = call.given.line - call.height
                 /\ Y(call.c) = call.height

\* C31 witness: the cursor was three lines above the viewport and scroll
\* brought the viewport up to it.
C31_Witness ==
    /\ call.fn = "scroll" /\ call.n = 1
    /\ call.given.lineOffset = call.given.line + 2
    /\ call.c.lineOffset = call.given.line - 1
    /\ call.height > 1

\* ------------------------------------------------------------------------
\* C33: Left at column 1 of a line L > 1 moves to the end of line L-1, and
\* Right past the last rune of a line L <= nLines moves to column 1 of line
\* L+1; Left at (col 1, line 1) and Right at the end of the virtual trailing
\* line change nothing; in every other case col changes by exactly one and
\* line is unchanged.
\* ------------------------------------------------------------------------
\* The Left key has been read and moveCursor has run.
LeftStep ==
    /\ KeyMove
    /\ \E kp \in GoodChunks : transliterateKeypress(kp) = keyLeft
    /\ pc' = "render"
    /\ cursor' = moveCursor(Ed, keyLeft, config.Height).cursor

\* The Right key has been read and moveCursor has run.
RightStep ==
    /\ KeyMove
    /\ \E kp \in GoodChunks : transliterateKeypress(kp) = keyRight
    /\ pc' = "render"
    /\ cursor' = moveCursor(Ed, keyRight, config.Height).cursor

ByOne(a, b) == a - b = 1 \/ b - a = 1

LeftAsClaimed ==
    IF cursor.col = 1 /\ cursor.line > 1
    THEN /\ cursor'.line = cursor.line - 1
         /\ cursor'.col = RuneLen(lines[cursor.line - 1]) + 1
    ELSE IF cursor.col = 1 /\ cursor.line = 1
    THEN cursor'.col = 1 /\ cursor'.line = 1
    ELSE ByOne(cursor'.col, cursor.col) /\ cursor'.line = cursor.line

RightAsClaimed ==
    IF cursor.line <= Len(lines) /\ cursor.col = currentLineLen(Ed) + 1
    THEN cursor'.line = cursor.line + 1 /\ cursor'.col = 1
    ELSE IF cursor.line = Len(lines) + 1 /\ cursor.col = 1
    THEN cursor'.col = 1 /\ cursor'.line = cursor.line
    ELSE ByOne(cursor'.col, cursor.col) /\ cursor'.line = cursor.line

C33_LeftRightWrap ==
    [][/\ LeftStep => LeftAsClaimed
       /\ RightStep => RightAsClaimed]_vars

\* The same for a cursor on a column of the screen (col >= 1).
C33_LeftRightWrapFromValidColumn ==
    [][cursor.col >= 1 => /\ LeftStep => LeftAsClaimed
                          /\ RightStep => RightAsClaimed]_vars

\* ------------------------------------------------------------------------
\* C32: pageUp(height) sets line to max(1, lineOffset - height + 2) and
\* pageDown(height, nLines) sets line to min(nLines + 1, lineOffset +
\* 2*height - 1); both leave col, colOffset and lineOffset unchanged.
\* ------------------------------------------------------------------------
IsMaxOf(m, a, b) == m >= a /\ m >= b /\ m \in {a, b}

IsMinOf(m, a, b) == m <= a /\ m <= b /\ m \in {a, b}

C32_PageTargets ==
    /\ call.fn \in {"pageUp", "pageDown"} =>
          /\ call.c.col = call.given.col
          /\ call.c.colOffset = call.given.colOffset
          /\ call.c.lineOffset = call.given.lineOffset
    /\ call.fn = "pageUp" =>
          IsMaxOf(call.c.line, 1, call.given.lineOffset - call.height + 2)
    /\ call.fn = "pageDown" =>
          IsMinOf(call.c.line, call.nLines + 1,
                  call.given.lineOffset + 2 * call.height - 1)

\* C32 witness: pageDown has moved the cursor forward to a line before the
\* virtual trailing line.
C32_Witness ==
    /\ call.fn = "pageDown"
    /\ call.c.line > call.given.line
    /\ call.c.line < call.nLines + 1
    /\ call.given.lineOffset > 0

\* ------------------------------------------------------------------------
\* C34: newLineFromString keeps every non-tab rune in order and replaces each
\* tab by 1 to 4 spaces so that what follows the tab starts at a 0-based
\* column that is a multiple of 4; the result contains no tab.
\* ------------------------------------------------------------------------
RECURSIVE WidthSum(_, _)
\* The columns taken by the first i runes of a string whose runes take w[1],
\* w[2], ... columns.
WidthSum(w, i) == IF i = 0 THEN 0 ELSE w[i] + WidthSum(w, i - 1)

RECURSIVE Widened(_, _, _)
\* s from rune i on, with every tab written as w[i] spaces.
Widened(s, w, i) ==
    IF i > Len(s) THEN <<>>
    ELSE (IF s[i] = TAB THEN [k \in 1..w[i] |-> SPACE] ELSE <<s[i]>>)
         \o Widened(s, w, i + 1)

C34_TabsExpandToTabStops ==
    call.fn = "newLineFromString" =>
        /\ \A i \in 1..Len(call.runes) : call.runes[i] # TAB
        /\ \E w \in [1..Len(call.s) -> 1..4] :
              /\ \A i \in 1..Len(call.s) :
                    IF call.s[i] = TAB THEN WidthSum(w, i) % 4 = 0 ELSE w[i] = 1
              /\ call.runes = Widened(call.s, w, 1)

\* C34 witness: a tab one column after a tab stop became three spaces and a
\* tab on a tab stop became four.
C34_Witness ==
    /\ call.fn = "newLineFromString"
    /\ call.s = <<97, TAB, TAB, 97>>
    /\ call.runes = <<97, SPACE, SPACE, SPACE, SPACE, SPACE, SPACE, SPACE, 97>>

\* ------------------------------------------------------------------------
\* C35: transliterateKeypress returns 0, the value for "no key", only for an
\* empty chunk: every non-empty chunk, a single NUL byte included, decodes to
\* a key other than 0.
\* ------------------------------------------------------------------------
C35_OnlyEmptyChunkIsNoKey ==
    (Decoded /\ call.key = 0) => call.kp = <<>>

\* ------------------------------------------------------------------------
\* C36: once the key source is exhausted the editor eventually terminates,
\* from every state, also while it is prompting for a filename.
\* ------------------------------------------------------------------------
Terminated == pc \in {"done", "panic", "decodePanic"}

Prompting == pc \in {"promptRender", "promptRead"}

C36_ExhaustedSourceTerminates == Exhausted ~> Terminated

\* The same outside the prompt.
C36_ExhaustedMainLoopTerminates == (Exhausted /\ ~Prompting) ~> Terminated

\* ------------------------------------------------------------------------
\* C37: with the cursor on the virtual trailing line (line = nLines + 1, the
\* empty buffer included) Backspace, Delete and Enter leave the buffer, the
\* cursor's col and line and the dirty flag unchanged.
\* ------------------------------------------------------------------------
OnVirtualLine == cursor.line = Len(lines) + 1

C37_VirtualLineEditsAreNoOps ==
    [][(OnVirtualLine /\ (KeyBackspace \/ KeyDelete \/ KeyEnter)) =>
          /\ pc' = "render"
          /\ lines' = lines
          /\ cursor'.col = cursor.col /\ cursor'.line = cursor.line
          /\ dirty' = dirty]_vars

\* The same for Backspace and Enter alone.
C37_VirtualLineBackspaceEnterAreNoOps ==
    [][(OnVirtualLine /\ (KeyBackspace \/ KeyEnter)) =>
          /\ pc' = "render"
          /\ lines' = lines
          /\ cursor'.col = cursor.col /\ cursor'.line = cursor.line
          /\ dirty' = dirty]_vars

\* ------------------------------------------------------------------------
\* C38: a save that fails with an I/O error leaves the buffer, the cursor,
\* the dirty flag and the document's filename and path as they were, so that
\* after a failed first save of an untitled document the next save chord
\* prompts for a filename again.
\* ------------------------------------------------------------------------
SaveFails == SaveAttempt /\ statusMsg' = "Changes not saved! IO error: %s"

C38_FailedSaveKeepsDocument ==
    [][SaveFails =>
          /\ lines' = lines
          /\ cursor' = cursor
          /\ dirty' = dirty
          /\ filename' = filename
          /\ filepath' = filepath]_vars

\* The same for the save of a document that already has a name.
C38_FailedSaveKeepsNamedDocument ==
    [][(SaveFails /\ filename # defaultFilename) =>
          /\ lines' = lines
          /\ cursor' = cursor
          /\ dirty' = dirty
          /\ filename' = filename
          /\ filepath' = filepath]_vars

\* ------------------------------------------------------------------------
\* C39: during the prompt only runes that are not control characters are
\* appended to the prompt buffer: the navigation and function keys and the
\* end-of-input value leave the prompt buffer unchanged.
\* ------------------------------------------------------------------------
\* The key values that stand for no rune: the function keys and end of input.
NotARune == FunctionKeys \cup {0}

C39_PromptAppendsRunesOnly ==
    [][(PromptKey /\ Len(promptBuf') > Len(promptBuf)) =>
          /\ promptBuf' = Append(promptBuf, promptBuf'[Len(promptBuf')])
          /\ promptBuf'[Len(promptBuf')] \notin NotARune
          /\ ~IsControl(promptBuf'[Len(promptBuf')])]_vars

\* ------------------------------------------------------------------------
\* C40: on a screen of any content height >= 1, from any state of the main
\* loop, PageDown pressed again and again eventually puts the cursor on line
\* nLines + 1 and PageUp pressed again and again eventually puts it on line
\* 1; PageDown never decreases the cursor line and PageUp never increases it.
\* ------------------------------------------------------------------------
InMainLoop == pc \in {"start", "render", "read"}

PagingDone(target) == cursor.line = target \/ pc \in {"done", "panic", "decodePanic"}

PagingIsMonotonic ==
    [][/\ (KeyMove /\ HoldingPageDown /\ pc' = "render") => cursor'.line >= cursor.line
       /\ (KeyMove /\ HoldingPageUp /\ pc' = "render") => cursor'.line <= cursor.line]_vars

C40_PagingReachesTheEnds ==
    /\ (HoldingPageDown /\ InMainLoop /\ config.Height >= 1) ~> PagingDone(Len(lines) + 1)
    /\ (HoldingPageUp /\ InMainLoop /\ config.Height >= 1) ~> PagingDone(1)
    /\ PagingIsMonotonic

\* The same on a screen of two content rows or more.
C40_PagingReachesTheEndsOnTwoRows ==
    /\ (HoldingPageDown /\ InMainLoop /\ config.Height >= 2) ~> PagingDone(Len(lines) + 1)
    /\ (HoldingPageUp /\ InMainLoop /\ config.Height >= 2) ~> PagingDone(1)
    /\ PagingIsMonotonic

====
